---------------------------- MODULE Spec2Model ----------------------------
(***************************************************************************)
(* Verification development for the Ren-C evaluation runtime core:         *)
(*   - the symbol interner        (src/core/c-word.c)                      *)
(*   - the garbage collector      (src/core/m-gc.c)                        *)
(*   - the paramlist builder      (src/core/c-function.c)                  *)
(*   - the generic handlers       (src/core/t-typeset.c, t-quoted.c,       *)
(*                                 t-pair.c)                               *)
(* Each subsystem has its own specification over the shared variables.     *)
(***************************************************************************)
EXTENDS Integers, Sequences, FiniteSets, TLC

(***************************************************************************)
(* Bounds of the model                                                     *)
(***************************************************************************)
MaxSymbols == 3     \* nodes of the series pool available to interned strings
MaxSlots == 13      \* the hash table is not expanded beyond this size
MaxEdges == 2       \* reference cells in the arrays of the initial heap
MaxRoots == 1       \* roots of the initial heap plus guarded nodes
MaxSpecLen == 3     \* items of the spec block given to the paramlist builder
MaxPipeline == 3    \* functions in the pipeline of a chain
MaxQuotes == 5      \* quote levels of a value
MaxFrameParams == 2 \* parameters of the functions frames are made for
MaxWords == 1       \* cells of the data stack holding spellings
MaxParams == 2      \* parameters of a paramlist given to Make_Function
MaxCoord == 2       \* magnitude of the components of a pair

(***************************************************************************)
(* Symbol interner state                                                   *)
(***************************************************************************)
VARIABLES
    canons_by_hash,             \* PG_Canons_By_Hash: [0..num_slots-1 -> node | NULL | DELETED_CANON]
    PG_Num_Canon_Slots_In_Use,
    PG_Num_Canon_Deleteds,
    str,                        \* the REBSTR nodes: live, spelling, LINK().synonym, STRING_INFO_CANON
    last_op,                    \* the interner operation that produced this state
    hung                        \* a probe loop of the operation never terminates

internVars == <<canons_by_hash, PG_Num_Canon_Slots_In_Use, PG_Num_Canon_Deleteds,
                str, last_op, hung>>

(***************************************************************************)
(* Garbage collector state                                                 *)
(***************************************************************************)
VARIABLES
    pool,               \* the nodes of SER_POOL: header and info bits, cells, LINK, MISC
    GC_Mark_Stack,      \* arrays queued by Queue_Mark_Array_Subclass_Deep
    GC_Guarded,         \* nodes pushed by Push_Guard_Node
    DS_Array,           \* the cells of the data stack
    DSP,                \* index of DS_TOP in DS_Array (0 when the stack is empty)
    Natives,            \* the ACTION! cells of the natives
    PG_Symbol_Canons,   \* the canons indexed by SYM_XXX
    frames,             \* the frame stack, FS_BOTTOM first
    devices,            \* the port contexts of the pending device requests
    GC_Disabled,
    Eval_Signals,       \* the signals set by SET_SIGNAL
    gc,                 \* position of Recycle_Core and its local variables
    recycled            \* what the last completed Recycle_Core returned

gcVars == <<pool, GC_Mark_Stack, GC_Guarded, DS_Array, DSP, Natives,
            PG_Symbol_Canons, frames, devices, GC_Disabled, Eval_Signals, gc,
            recycled>>

(***************************************************************************)
(* Paramlist builder state                                                 *)
(***************************************************************************)
VARIABLES
    mk,                 \* arguments, locals and position of the paramlist builder
    paramlist           \* the array the paramlist builder returned

paramVars == <<mk, paramlist>>

(***************************************************************************)
(* Function call state                                                     *)
(***************************************************************************)
VARIABLES
    frm                 \* the frame of the function call the dispatchers run

dispVars == <<frm>>

\* quoted values: the result of the last native and the call that left it
VARIABLES
    quo

quoteVars == <<quo>>

\* actions and frames: the last function made and the frame made for it
VARIABLES
    act

frameVars == <<act>>

vars == <<internVars, gcVars, paramVars, dispVars, quoteVars, frameVars>>

\* the value of the variables of a part of the program that a specification
\* does not run
Unused == <<>>

NULL == 0
DELETED_CANON == 0 - 1

SymNodes == 1..MaxSymbols

\* The byte strings handed to the interner: "a", "A", "ab", "Ab", "AB", "ba"
Spellings ==
    { <<97>>, <<65>>,
      <<97, 98>>, <<65, 98>>, <<65, 66>>,
      <<98, 97>> }

\* The list of table sizes.  Its last entry before the terminator, 2^32 - 5,
\* is beyond the integers of the checker and is left out: no table of the
\* model comes near it.
Primes ==
    << 7, 13, 31, 61, 127, 251, 509, 1021, 2039, 4093, 8191, 16381, 32749,
       65521, 131071, 262139, 524287, 1048573, 2097143, 4194301, 8388593,
       16777213, 33554393, 67108859, 134217689, 268435399, 536870909,
       1073741789, 2147483647, 0 >>

\* Get_Hash_Prime: the first prime of the list that is not below size, 0 when
\* the list is exhausted.
RECURSIVE Get_Hash_Prime_From(_, _)
Get_Hash_Prime_From(n, size) ==
    IF Primes[n] # 0 /\ size > Primes[n]
        THEN Get_Hash_Prime_From(n + 1, size)
        ELSE Primes[n]

\* Get_Hash_Prime returning the entry after the one the loop stopped at
Get_Hash_Prime_OneFurther(size) ==
    LET prime == Get_Hash_Prime_From(1, size)
    IN  IF prime = 0 THEN 0 ELSE Get_Hash_Prime_From(1, prime + 1)

Get_Hash_Prime(size) == Get_Hash_Prime_From(1, size)

LO_CASE(c) == IF c >= 65 /\ c <= 90 THEN c + 32 ELSE c

\* Hash of the case-folded bytes of a string; only its low 24 bits select
\* the slot and the stride, so 24 bits are kept.
RECURSIVE Hash_Bytes(_, _, _)
Hash_Bytes(utf8, i, hash) ==
    IF i > Len(utf8) THEN hash
    ELSE Hash_Bytes(utf8, i + 1, (hash * 31 + LO_CASE(utf8[i])) % 16777216)

Hash_UTF8(utf8) == Hash_Bytes(utf8, 1, Len(utf8))

Hash_String(s) == Hash_UTF8(str[s].spelling)

\* First_Hash_Candidate_Slot: the first slot to try and the probe stride.
First_Slot(hash, num_slots) == ((hash % 16777216) - (hash % 256)) % num_slots

Skip_Of(hash, num_slots) ==
    IF (hash % 65536) % num_slots = 0 THEN 1 ELSE (hash % 65536) % num_slots

\* Compare_UTF8: 0 when byte-equal, positive when equal ignoring case,
\* negative otherwise.
RECURSIVE Compare_From(_, _, _, _)
Compare_From(s1, s2, i, result) ==
    IF i > Len(s1) \/ i > Len(s2)
        THEN IF Len(s1) # Len(s2)
                THEN (IF Len(s1) > Len(s2) THEN 0 - 1 ELSE 0 - 3)
                ELSE result
    ELSE IF s1[i] # s2[i]
        THEN IF LO_CASE(s1[i]) # LO_CASE(s2[i])
                THEN (IF s1[i] > s2[i] THEN 0 - 1 ELSE 0 - 3)
                ELSE Compare_From(s1, s2, i + 1, IF s1[i] > s2[i] THEN 3 ELSE 1)
    ELSE Compare_From(s1, s2, i + 1, result)

Compare_UTF8(s1, s2) == Compare_From(s1, s2, 1, 0)

NumSlots(tbl) == Cardinality(DOMAIN tbl)

NextSlot(slot, skip, num_slots) ==
    IF slot + skip >= num_slots THEN slot + skip - num_slots ELSE slot + skip

\* STR_CANON: the member of the ring of s that carries the canon flag (NULL
\* when the walk finds none)
RECURSIVE Canon_Walk(_, _, _)
Canon_Walk(s, n, fuel) ==
    IF n = NULL THEN NULL
    ELSE IF s[n].canon THEN n
    ELSE IF fuel = 0 THEN NULL
    ELSE Canon_Walk(s, s[n].synonym, fuel - 1)

STR_CANON_In(s, n) == Canon_Walk(s, n, MaxSymbols)

STR_CANON(n) == STR_CANON_In(str, n)

FreeStr == [live |-> FALSE, spelling |-> <<>>, synonym |-> NULL, canon |-> FALSE]

(***************************************************************************)
(* Expand_Word_Table                                                       *)
(***************************************************************************)
\* the first vacant slot of the new table on the probe sequence of a canon
RECURSIVE Rehash_Slot(_, _, _)
Rehash_Slot(new_tbl, slot, skip) ==
    IF new_tbl[slot] # NULL
        THEN Rehash_Slot(new_tbl, NextSlot(slot, skip, NumSlots(new_tbl)), skip)
        ELSE slot

\* the loop copying each canon to the slot it had in the old table
RECURSIVE Rehash_All_SameSlot(_, _, _, _)
Rehash_All_SameSlot(old_tbl, old_slot, new_tbl, dropped) ==
    IF old_slot = NumSlots(old_tbl)
        THEN [tbl |-> new_tbl, dropped |-> dropped]
    ELSE IF old_tbl[old_slot] = NULL
        THEN Rehash_All_SameSlot(old_tbl, old_slot + 1, new_tbl, dropped)
    ELSE IF old_tbl[old_slot] = DELETED_CANON
        THEN Rehash_All_SameSlot(old_tbl, old_slot + 1, new_tbl, dropped + 1)
    ELSE Rehash_All_SameSlot(old_tbl, old_slot + 1,
                             [new_tbl EXCEPT ![old_slot] = old_tbl[old_slot]], dropped)

\* the loop over the old slots: canons are re-inserted, tombstones dropped
RECURSIVE Rehash_All(_, _, _, _)
Rehash_All(old_tbl, old_slot, new_tbl, dropped) ==
    IF old_slot = NumSlots(old_tbl)
        THEN [tbl |-> new_tbl, dropped |-> dropped]
    ELSE IF old_tbl[old_slot] = NULL
        THEN Rehash_All(old_tbl, old_slot + 1, new_tbl, dropped)
    ELSE IF old_tbl[old_slot] = DELETED_CANON
        THEN Rehash_All(old_tbl, old_slot + 1, new_tbl, dropped + 1)
    ELSE LET canon == old_tbl[old_slot]
             hash == Hash_String(canon)
             num_slots == NumSlots(new_tbl)
             slot == Rehash_Slot(new_tbl, First_Slot(hash, num_slots),
                                 Skip_Of(hash, num_slots))
         IN  Rehash_All(old_tbl, old_slot + 1,
                        [new_tbl EXCEPT ![slot] = canon], dropped)

\* Expand_Word_Table leaving the slot-usage counter as it was
Expand_Word_Table_KeepsCount(tbl, in_use, deleteds) ==
    LET old_num_slots == NumSlots(tbl)
        num_slots == Get_Hash_Prime(old_num_slots + 1)
    IN  IF num_slots = 0
            THEN [tbl |-> tbl, in_use |-> in_use, deleteds |-> deleteds,
                  failed |-> TRUE]
            ELSE LET r == Rehash_All(tbl, 0, [i \in 0..(num_slots - 1) |-> NULL], 0)
                 IN  [tbl |-> r.tbl, in_use |-> in_use,
                      deleteds |-> deleteds - r.dropped, failed |-> FALSE]

\* Result of Expand_Word_Table on a table and its two counters; failed when
\* the prime list has no larger size (the table is then left as it was).
Expand_Word_Table(tbl, in_use, deleteds) ==
    LET old_num_slots == NumSlots(tbl)
        num_slots == Get_Hash_Prime(old_num_slots + 1)
    IN  IF num_slots = 0
            THEN [tbl |-> tbl, in_use |-> in_use, deleteds |-> deleteds,
                  failed |-> TRUE]
            ELSE LET r == Rehash_All(tbl, 0, [i \in 0..(num_slots - 1) |-> NULL], 0)
                 IN  [tbl |-> r.tbl, in_use |-> in_use - r.dropped,
                      deleteds |-> deleteds - r.dropped, failed |-> FALSE]

(***************************************************************************)
(* Intern_UTF8_Managed                                                     *)
(***************************************************************************)
\* Walk_Synonyms comparing the canon's bytes instead of the synonym's
RECURSIVE Walk_Synonyms_WrongNode(_, _, _, _)
Walk_Synonyms_WrongNode(canon, synonym, utf8, fuel) ==
    IF synonym = canon THEN [kind |-> "none", node |-> NULL]
    ELSE IF fuel = 0 THEN [kind |-> "hang", node |-> NULL]
    ELSE IF Compare_UTF8(str[canon].spelling, utf8) = 0
        THEN [kind |-> "match", node |-> synonym]
    ELSE Walk_Synonyms_WrongNode(canon, str[synonym].synonym, utf8, fuel - 1)

\* the walk over the synonym ring of a canon that differs from utf8 by case
RECURSIVE Walk_Synonyms(_, _, _, _)
Walk_Synonyms(canon, synonym, utf8, fuel) ==
    IF synonym = canon THEN [kind |-> "none", node |-> NULL]
    ELSE IF fuel = 0 THEN [kind |-> "hang", node |-> NULL]
    ELSE IF Compare_UTF8(str[synonym].spelling, utf8) = 0
        THEN [kind |-> "match", node |-> synonym]
    ELSE Walk_Synonyms(canon, str[synonym].synonym, utf8, fuel - 1)

\* the probe loop; deleted_slot is -1 while no tombstone was passed
RECURSIVE Intern_Probe(_, _, _, _, _, _)
Intern_Probe(tbl, slot, skip, utf8, deleted_slot, fuel) ==
    LET canon == tbl[slot]
        next == NextSlot(slot, skip, NumSlots(tbl))
    IN  IF canon = NULL
            THEN [kind |-> "new", canon |-> NULL, slot |-> slot,
                  deleted_slot |-> deleted_slot]
        ELSE IF fuel = 0
            THEN [kind |-> "hang", canon |-> NULL, slot |-> slot,
                  deleted_slot |-> deleted_slot]
        ELSE IF canon = DELETED_CANON
            THEN Intern_Probe(tbl, next, skip, utf8, slot, fuel - 1)
        ELSE LET cmp == Compare_UTF8(str[canon].spelling, utf8)
             IN  IF cmp = 0
                     THEN [kind |-> "return", canon |-> canon, slot |-> slot,
                           deleted_slot |-> deleted_slot]
                 ELSE IF cmp < 0
                     THEN Intern_Probe(tbl, next, skip, utf8, deleted_slot, fuel - 1)
                 ELSE LET w == Walk_Synonyms(canon, str[canon].synonym, utf8,
                                             MaxSymbols + 1)
                      IN  IF w.kind = "match"
                              THEN [kind |-> "return", canon |-> w.node,
                                    slot |-> slot, deleted_slot |-> deleted_slot]
                          ELSE IF w.kind = "hang"
                              THEN [kind |-> "hang", canon |-> NULL, slot |-> slot,
                                    deleted_slot |-> deleted_slot]
                          ELSE [kind |-> "new", canon |-> canon, slot |-> slot,
                                deleted_slot |-> deleted_slot]

FreeSymNodes == {n \in SymNodes : ~str[n].live}

\* Make_Ser_Core takes a node of the pool
Alloc_Node == CHOOSE n \in FreeSymNodes : \A m \in FreeSymNodes : n <= m

\* the new interning becomes the canon: flagged, its ring is itself
Make_Canon(intern, utf8) ==
    [str EXCEPT ![intern] = [live |-> TRUE, spelling |-> utf8,
                             synonym |-> intern, canon |-> TRUE]]

\* Link_Synonym pointing the new interning at the canon instead of at the
\* canon's former successor
Link_Synonym_DropsRing(intern, canon, utf8) ==
    [str EXCEPT ![intern] = [live |-> TRUE, spelling |-> utf8,
                             synonym |-> canon, canon |-> FALSE],
                ![canon].synonym = intern]

\* the new interning is linked into the ring right after the canon
Link_Synonym(intern, canon, utf8) ==
    [str EXCEPT ![intern] = [live |-> TRUE, spelling |-> utf8,
                             synonym |-> str[canon].synonym, canon |-> FALSE],
                ![canon].synonym = intern]

Intern_UTF8_Managed(utf8) ==
    \E expand \in {PG_Num_Canon_Slots_In_Use > NumSlots(canons_by_hash) \div 2} :
    \E e \in {IF expand
                THEN Expand_Word_Table(canons_by_hash, PG_Num_Canon_Slots_In_Use,
                                       PG_Num_Canon_Deleteds)
                ELSE [tbl |-> canons_by_hash, in_use |-> PG_Num_Canon_Slots_In_Use,
                      deleteds |-> PG_Num_Canon_Deleteds, failed |-> FALSE]} :
    \E num_slots \in {NumSlots(e.tbl)}, hash \in {Hash_UTF8(utf8)} :
    \E p \in {Intern_Probe(e.tbl, First_Slot(hash, num_slots),
                          Skip_Of(hash, num_slots), utf8, 0 - 1, num_slots)} :
    LET op == [op |-> "intern", arg |-> utf8, expanded |-> expand,
               node |-> NULL, created |-> FALSE, was_canon |-> FALSE,
               promoted |-> NULL, slot |-> p.slot]
    IN  /\ ~hung
        /\ ~e.failed
        /\ num_slots <= MaxSlots
        /\ p.kind = "new" => FreeSymNodes # {}
        /\ IF p.kind = "hang"
              THEN /\ hung' = TRUE
                   /\ canons_by_hash' = e.tbl
                   /\ PG_Num_Canon_Slots_In_Use' = e.in_use
                   /\ PG_Num_Canon_Deleteds' = e.deleteds
                   /\ str' = str
                   /\ last_op' = op
           ELSE IF p.kind = "return"
              THEN /\ canons_by_hash' = e.tbl
                   /\ PG_Num_Canon_Slots_In_Use' = e.in_use
                   /\ PG_Num_Canon_Deleteds' = e.deleteds
                   /\ str' = str
                   /\ last_op' = [op EXCEPT !.node = p.canon]
                   /\ hung' = FALSE
           ELSE LET intern == Alloc_Node
                IN  IF p.canon = NULL
                       THEN \* no canon found: this interning becomes the canon
                            /\ IF p.deleted_slot # 0 - 1
                                  THEN /\ canons_by_hash' =
                                            [e.tbl EXCEPT ![p.deleted_slot] = intern]
                                       /\ PG_Num_Canon_Deleteds' = e.deleteds - 1
                                       /\ PG_Num_Canon_Slots_In_Use' = e.in_use
                                  ELSE /\ canons_by_hash' =
                                            [e.tbl EXCEPT ![p.slot] = intern]
                                       /\ PG_Num_Canon_Slots_In_Use' = e.in_use + 1
                                       /\ PG_Num_Canon_Deleteds' = e.deleteds
                            /\ str' = Make_Canon(intern, utf8)
                            /\ last_op' = [op EXCEPT !.node = intern,
                                                     !.created = TRUE,
                                                     !.was_canon = TRUE,
                                                     !.slot =
                                                        IF p.deleted_slot # 0 - 1
                                                           THEN p.deleted_slot
                                                           ELSE p.slot]
                            /\ hung' = FALSE
                       ELSE \* a synonym of an existing canon, linked in after it
                            /\ canons_by_hash' = e.tbl
                            /\ PG_Num_Canon_Slots_In_Use' = e.in_use
                            /\ PG_Num_Canon_Deleteds' = e.deleteds
                            /\ str' = Link_Synonym(intern, p.canon, utf8)
                            /\ last_op' = [op EXCEPT !.node = intern,
                                                     !.created = TRUE]
                            /\ hung' = FALSE


(***************************************************************************)
(* GC_Kill_Interning                                                       *)
(***************************************************************************)
\* the ring member whose link is intern (NULL when the walk never finds one)
RECURSIVE Ring_Predecessor(_, _, _)
Ring_Predecessor(temp, intern, fuel) ==
    IF str[temp].synonym = intern THEN temp
    ELSE IF fuel = 0 THEN NULL
    ELSE Ring_Predecessor(str[temp].synonym, intern, fuel - 1)

\* cut intern out of its ring (a no-op on a ring of one)
Unlink_Synonym(intern, temp) ==
    [str EXCEPT ![temp].synonym = str[intern].synonym]

\* the slot holding intern (-1 when the probe never finds it)
RECURSIVE Find_Canon_Slot(_, _, _, _, _)
Find_Canon_Slot(tbl, slot, skip, intern, fuel) ==
    IF tbl[slot] = intern THEN slot
    ELSE IF fuel = 0 THEN 0 - 1
    ELSE Find_Canon_Slot(tbl, NextSlot(slot, skip, NumSlots(tbl)), skip, intern,
                         fuel - 1)

\* Promote_Synonym without setting the canon flag
Promote_Synonym_NoFlag(tbl, s, slot, synonym) ==
    [tbl |-> [tbl EXCEPT ![slot] = synonym], str |-> s]

\* Promote_Synonym that tombstones the slot instead of handing it over
Promote_Synonym_NoSlot(tbl, s, slot, synonym) ==
    [tbl |-> [tbl EXCEPT ![slot] = DELETED_CANON],
     str |-> [s EXCEPT ![synonym].canon = TRUE]]

\* the synonym takes over the hash slot and the canon flag
Promote_Synonym(tbl, s, slot, synonym) ==
    [tbl |-> [tbl EXCEPT ![slot] = synonym],
     str |-> [s EXCEPT ![synonym].canon = TRUE]]

\* the loop rippling the collision slots back; previous_slot keeps its value
RECURSIVE Ripple_Back(_, _, _, _, _)
Ripple_Back(tbl, slot, skip, previous_slot, fuel) ==
    IF tbl[slot] = NULL THEN [tbl |-> tbl, hang |-> FALSE]
    ELSE IF fuel = 0 THEN [tbl |-> tbl, hang |-> TRUE]
    ELSE LET next == NextSlot(slot, skip, NumSlots(tbl))
         IN  Ripple_Back([tbl EXCEPT ![previous_slot] = tbl[next]], next, skip,
                         previous_slot, fuel - 1)

\* the removal that leaves the slot empty
Remove_Canon_LeavesNull(tbl, slot, skip) ==
    LET r == Ripple_Back(tbl, slot, skip, slot, 2 * NumSlots(tbl) + 1)
    IN  IF r.hang THEN r
        ELSE [tbl |-> [r.tbl EXCEPT ![slot] = NULL], hang |-> FALSE]

\* removal of a canon with a ring of one: the slot ends up a tombstone
Remove_Canon(tbl, slot, skip) ==
    LET r == Ripple_Back(tbl, slot, skip, slot, 2 * NumSlots(tbl) + 1)
    IN  IF r.hang THEN r
        ELSE [tbl |-> [r.tbl EXCEPT ![slot] = DELETED_CANON], hang |-> FALSE]

\* GC_Kill_Interning(intern), followed by the release of the node by the
\* caller (GC_Kill_Series)
GC_Kill_Interning(intern) ==
    /\ ~hung
    /\ str[intern].live
    /\ \E synonym \in {str[intern].synonym} :
           \E temp \in {Ring_Predecessor(synonym, intern, MaxSymbols + 1)} :
           \E num_slots \in {NumSlots(canons_by_hash)}, hash \in {Hash_String(intern)} :
           \E skip \in {Skip_Of(hash, num_slots)} :
           \E slot \in {Find_Canon_Slot(canons_by_hash, First_Slot(hash, num_slots), skip,
                                       intern, num_slots)} :
           LET unlinked == Unlink_Synonym(intern, temp)
               freed == [unlinked EXCEPT ![intern] = FreeStr]
               op == [op |-> "kill", arg |-> str[intern].spelling, expanded |-> FALSE,
                      node |-> intern, created |-> FALSE,
                      was_canon |-> str[intern].canon, promoted |-> NULL, slot |-> slot]
           IN  /\ ~hung
               /\ str[intern].live
               /\ IF temp = NULL
                     THEN /\ hung' = TRUE
                          /\ last_op' = op
                          /\ UNCHANGED <<canons_by_hash, PG_Num_Canon_Slots_In_Use,
                                         PG_Num_Canon_Deleteds, str>>
                  ELSE IF ~str[intern].canon
                     THEN /\ str' = freed
                          /\ last_op' = op
                          /\ hung' = FALSE
                          /\ UNCHANGED <<canons_by_hash, PG_Num_Canon_Slots_In_Use,
                                         PG_Num_Canon_Deleteds>>
                  ELSE IF slot = 0 - 1
                     THEN /\ hung' = TRUE
                          /\ str' = unlinked
                          /\ last_op' = op
                          /\ UNCHANGED <<canons_by_hash, PG_Num_Canon_Slots_In_Use,
                                         PG_Num_Canon_Deleteds>>
                  ELSE IF synonym # intern
                     THEN LET pr == Promote_Synonym(canons_by_hash, freed, slot, synonym)
                          IN  /\ canons_by_hash' = pr.tbl
                              /\ str' = pr.str
                              /\ last_op' = [op EXCEPT !.promoted = synonym]
                              /\ hung' = FALSE
                              /\ UNCHANGED <<PG_Num_Canon_Slots_In_Use,
                                             PG_Num_Canon_Deleteds>>
                  ELSE LET r == Remove_Canon(canons_by_hash, slot, skip)
                       IN  IF r.hang
                              THEN /\ hung' = TRUE
                                   /\ canons_by_hash' = r.tbl
                                   /\ str' = unlinked
                                   /\ last_op' = op
                                   /\ UNCHANGED <<PG_Num_Canon_Slots_In_Use,
                                                  PG_Num_Canon_Deleteds>>
                              ELSE /\ canons_by_hash' = r.tbl
                                   /\ PG_Num_Canon_Deleteds' = PG_Num_Canon_Deleteds + 1
                                   /\ str' = freed
                                   /\ last_op' = op
                                   /\ hung' = FALSE
                                   /\ UNCHANGED PG_Num_Canon_Slots_In_Use

(***************************************************************************)
(* Startup_Interning and the interner's specification                      *)
(***************************************************************************)
\* debug builds start with one slot to exercise the rehashing
InitialSlots == 1

NoOp == [op |-> "none", arg |-> <<>>, expanded |-> FALSE, node |-> NULL,
         created |-> FALSE, was_canon |-> FALSE, promoted |-> NULL, slot |-> 0]

Startup_Interning ==
    /\ PG_Num_Canon_Slots_In_Use = 0
    /\ PG_Num_Canon_Deleteds = 0
    /\ canons_by_hash = [i \in 0..(InitialSlots - 1) |-> NULL]
    /\ str = [n \in SymNodes |-> FreeStr]
    /\ last_op = NoOp
    /\ hung = FALSE

(***************************************************************************)
(* Garbage collector (src/core/m-gc.c)                                     *)
(***************************************************************************)

\* The nodes of the series pool, in the order the pool is walked
BlockX == 1         \* a plain array (a BLOCK!), managed or manual
BlockY == 2         \* a plain array (a BLOCK!)
Text == 3           \* a string series (not an array)
Ctx == 4            \* the varlist of a FRAME! context
Act == 5            \* the paramlist of an action
Details == 6        \* the details array of Act
Handle == 7         \* the singular array of an API handle

GCNodes == {BlockX, BlockY, Text, Ctx, Act, Details, Handle}

Cell(kind, node, phase) == [kind |-> kind, node |-> node, phase |-> phase]

END_Cell == Cell("END", NULL, NULL)

\* a node of the pool with NODE_FLAG_FREE
FreeNode ==
    [free |-> TRUE, managed |-> FALSE, marked |-> FALSE, root |-> FALSE,
     class |-> "array", inaccessible |-> FALSE, failed |-> FALSE,
     file_line |-> FALSE, keysource_cell |-> FALSE, cells |-> <<>>,
     link |-> NULL, meta |-> NULL, details |-> NULL]

\* a live node of the given class with no content
Make_Node(class, managed) ==
    [FreeNode EXCEPT !.free = FALSE, !.managed = managed, !.class = class]

IS_SER_ARRAY(h, s) == h[s].class # "string"

\* the state the marking routines work on: the pool, the mark stack, whether
\* a panic was raised, whether the routine ends in Propagate_All_GC_Marks,
\* the debug flag in_mark, whether an assert(not in_mark) has failed
Marking(h, st) ==
    [h |-> h, st |-> st, panic |-> FALSE, propagate |-> TRUE, in_mark |-> FALSE,
     reentered |-> FALSE]

Panic(m) == [m EXCEPT !.panic = TRUE]

Mark_Rebser_Only(m, s) ==
    IF m.h[s].free \/ ~m.h[s].managed THEN Panic(m)
    ELSE [m EXCEPT !.h[s].marked = TRUE]

\* Queue_Mark_Array_Subclass_Deep without the test of the mark
Queue_Mark_Array_Subclass_Deep_Requeues(m, a) ==
    IF ~IS_SER_ARRAY(m.h, a) THEN Panic(m)
    ELSE LET m2 == Mark_Rebser_Only(m, a)
         IN  [m2 EXCEPT !.st = Append(m2.st, a)]

Queue_Mark_Array_Subclass_Deep(m, a) ==
    IF ~IS_SER_ARRAY(m.h, a) THEN Panic(m)
    ELSE IF m.h[a].marked THEN m
    ELSE LET m2 == Mark_Rebser_Only(m, a)
         IN  [m2 EXCEPT !.st = Append(m2.st, a)]

\* a plain array; its file string is flagged directly
Queue_Mark_Array_Deep(m, a) ==
    IF m.h[a].class # "array" THEN Panic(m)
    ELSE LET m2 == IF m.h[a].file_line
                      THEN [m EXCEPT !.h[m.h[a].link].marked = TRUE]
                      ELSE m
         IN  Queue_Mark_Array_Subclass_Deep(m2, a)

Queue_Mark_Context_Deep(m, c) ==
    IF m.h[c].class # "varlist" THEN Panic(m)
    ELSE Queue_Mark_Array_Subclass_Deep(m, c)

Queue_Mark_Action_Deep(m, a) ==
    IF m.h[a].class # "paramlist" THEN Panic(m)
    ELSE Queue_Mark_Array_Subclass_Deep(m, a)

\* the switch marking the canon of the spelling of a word instead of the
\* spelling
Queue_Mark_Opt_End_Cell_Deep_MarksCanon(m, v) ==
    IF m.in_mark THEN [m EXCEPT !.panic = TRUE, !.reentered = TRUE]
    ELSE LET m0 == [m EXCEPT !.in_mark = TRUE]
             r == IF v.kind = "ACTION" THEN Queue_Mark_Action_Deep(m0, v.node)
                  ELSE IF v.kind = "WORD"
                      THEN IF v.node \in SymNodes /\ str[v.node].live
                              THEN Mark_Rebser_Only(m0, STR_CANON(v.node))
                              ELSE Mark_Rebser_Only(m0, v.node)
                  ELSE IF v.kind = "BLOCK"
                      THEN IF m.h[v.node].inaccessible
                              THEN Mark_Rebser_Only(m0, v.node)
                              ELSE Queue_Mark_Array_Deep(m0, v.node)
                  ELSE IF v.kind = "TEXT" THEN Mark_Rebser_Only(m0, v.node)
                  ELSE IF v.kind = "FRAME"
                      THEN LET m2 == Queue_Mark_Context_Deep(m0, v.node)
                           IN  IF v.phase # NULL
                                  THEN Queue_Mark_Action_Deep(m2, v.phase)
                                  ELSE m2
                  ELSE IF v.kind = "P_NORMAL" THEN Mark_Rebser_Only(m0, v.node)
                  ELSE m0
         IN  [r EXCEPT !.in_mark = FALSE]

\* the switch over the kind of the cell, between the assert(not in_mark) and
\* the reset of in_mark
Queue_Mark_Opt_End_Cell_Deep(m, v) ==
    IF m.in_mark THEN [m EXCEPT !.panic = TRUE, !.reentered = TRUE]
    ELSE LET m0 == [m EXCEPT !.in_mark = TRUE]
             r == IF v.kind = "ACTION" THEN Queue_Mark_Action_Deep(m0, v.node)
                  ELSE IF v.kind = "WORD" THEN Mark_Rebser_Only(m0, v.node)
                  ELSE IF v.kind = "BLOCK"
                      THEN IF m.h[v.node].inaccessible
                              THEN Mark_Rebser_Only(m0, v.node)
                              ELSE Queue_Mark_Array_Deep(m0, v.node)
                  ELSE IF v.kind = "TEXT" THEN Mark_Rebser_Only(m0, v.node)
                  ELSE IF v.kind = "FRAME"
                      THEN LET m2 == Queue_Mark_Context_Deep(m0, v.node)
                           IN  IF v.phase # NULL
                                  THEN Queue_Mark_Action_Deep(m2, v.phase)
                                  ELSE m2
                  ELSE IF v.kind = "P_NORMAL" THEN Mark_Rebser_Only(m0, v.node)
                  ELSE m0      \* END, INTEGER
         IN  [r EXCEPT !.in_mark = FALSE]

\* the loop over the cells of an array up to its END
RECURSIVE Queue_Mark_Cells(_, _, _)
Queue_Mark_Cells(m, cells, i) ==
    IF i > Len(cells) THEN m
    ELSE Queue_Mark_Cells(Queue_Mark_Opt_End_Cell_Deep(m, cells[i]), cells, i + 1)

\* one iteration of the loop of Propagate_All_GC_Marks: pops an array and
\* queues what it references
Propagate_Pop(m) ==
    IF m.in_mark THEN [m EXCEPT !.panic = TRUE, !.reentered = TRUE] ELSE
    LET a == m.st[Len(m.st)]
        m0 == [m EXCEPT !.st = SubSeq(m.st, 1, Len(m.st) - 1)]
        node == m.h[a]
    IN  IF node.class = "paramlist"
           THEN LET m1 == Queue_Mark_Array_Deep(m0, node.details)
                    m2 == Queue_Mark_Action_Deep(m1, node.link)
                    specialty == m.h[node.details].link
                    m3 == IF m.h[specialty].class = "varlist"
                             THEN Queue_Mark_Context_Deep(m2, specialty)
                          ELSE IF specialty # a THEN Panic(m2)
                          ELSE m2
                    m4 == IF node.meta # NULL
                             THEN Queue_Mark_Context_Deep(m3, node.meta)
                             ELSE m3
                IN  Queue_Mark_Cells(m4, node.cells, 1)
        ELSE IF node.class = "varlist"
           THEN LET m1 == IF node.keysource_cell THEN m0
                          ELSE IF m.h[node.link].class # "paramlist" THEN Panic(m0)
                          ELSE Queue_Mark_Array_Subclass_Deep(m0, node.link)
                    m2 == IF node.meta # NULL
                             THEN Queue_Mark_Context_Deep(m1, node.meta)
                             ELSE m1
                IN  IF node.inaccessible THEN m2
                    ELSE Queue_Mark_Cells(m2, node.cells, 1)
        ELSE IF node.inaccessible THEN m0
        ELSE Queue_Mark_Cells(m0, node.cells, 1)

\* the release of a node
GC_Kill_Series(h, s) == [h EXCEPT ![s] = FreeNode]

\* the body of the loop of Mark_Root_Series for the node s
\* the variant that frees the handle of every inaccessible owner
Mark_Root_Node_FreesLeaked(m, s) ==
    LET node == m.h[s]
    IN  IF node.free THEN m
        ELSE IF node.root
           THEN IF ~node.managed
                   THEN Queue_Mark_Opt_End_Cell_Deep(m, node.cells[1])
                ELSE IF m.h[node.link].inaccessible
                   THEN [m EXCEPT !.h = GC_Kill_Series(m.h, s)]
                ELSE Queue_Mark_Opt_End_Cell_Deep(
                         [m EXCEPT !.h[s].marked = TRUE], node.cells[1])
        ELSE IF IS_SER_ARRAY(m.h, s) /\ ~node.managed
           THEN IF node.class # "array" THEN Panic(m)
                ELSE LET m2 == IF node.file_line
                                  THEN [m EXCEPT !.h[node.link].marked = TRUE]
                                  ELSE m
                     IN  Queue_Mark_Cells(m2, node.cells, 1)
        ELSE m

Mark_Root_Node(m, s) ==
    LET node == m.h[s]
    IN  IF node.free THEN m
        ELSE IF node.root
           THEN IF ~node.managed
                   THEN Queue_Mark_Opt_End_Cell_Deep(m, node.cells[1])
                ELSE IF m.h[node.link].inaccessible
                   THEN IF ~m.h[node.link].failed THEN Panic(m)
                        ELSE [m EXCEPT !.h = GC_Kill_Series(m.h, s)]
                ELSE Queue_Mark_Opt_End_Cell_Deep(
                         [m EXCEPT !.h[s].marked = TRUE], node.cells[1])
        ELSE IF IS_SER_ARRAY(m.h, s) /\ ~node.managed
           THEN IF node.class # "array" THEN Panic(m)
                ELSE LET m2 == IF node.file_line
                                  THEN [m EXCEPT !.h[node.link].marked = TRUE]
                                  ELSE m
                     IN  Queue_Mark_Cells(m2, node.cells, 1)
        ELSE m

RECURSIVE Mark_Root_Nodes(_, _)
Mark_Root_Nodes(m, s) ==
    IF s \notin GCNodes THEN m
    ELSE Mark_Root_Nodes(Mark_Root_Node(m, s), s + 1)

Mark_Root_Series(m) == [Mark_Root_Nodes(m, 1) EXCEPT !.propagate = TRUE]

Mark_Natives(m) == [Queue_Mark_Cells(m, Natives, 1) EXCEPT !.propagate = TRUE]

RECURSIVE Mark_Canons(_, _, _)
Mark_Canons(m, canons, i) ==
    IF i > Len(canons) THEN m
    ELSE Mark_Canons(Mark_Rebser_Only(m, canons[i]), canons, i + 1)

Mark_Symbol_Series(m) ==
    [Mark_Canons(m, PG_Symbol_Canons, 1) EXCEPT !.propagate = FALSE]

\* the cells from DS_TOP down to the head of the data stack
RECURSIVE Mark_Stack_Cells(_, _)
Mark_Stack_Cells(m, stackval) ==
    IF stackval = 0 THEN m
    ELSE Mark_Stack_Cells(Queue_Mark_Opt_End_Cell_Deep(m, DS_Array[stackval]),
                          stackval - 1)

Mark_Data_Stack(m) == [Mark_Stack_Cells(m, DSP) EXCEPT !.propagate = TRUE]

\* the body of the loop of Mark_Guarded_Nodes for one guarded series
Mark_Guarded_Node(m, node) ==
    LET m2 == IF ~m.h[node].managed THEN Panic(m)
              ELSE IF IS_SER_ARRAY(m.h, node)
                 THEN Queue_Mark_Array_Subclass_Deep(m, node)
              ELSE Mark_Rebser_Only(m, node)
    IN  [m2 EXCEPT !.propagate = TRUE]

\* the body of the loop of Mark_Frame_Stack_Deep for the frame f
Mark_Frame(m, f) ==
    LET m1 == IF f.array # NULL THEN Queue_Mark_Array_Deep(m, f.array) ELSE m
        m2 == Queue_Mark_Opt_End_Cell_Deep(m1, f.out)
        m3 == IF f.original = NULL THEN m2
              ELSE LET a1 == Queue_Mark_Action_Deep(m2, f.original)
                       a2 == IF f.opt_label # NULL
                                THEN Mark_Rebser_Only(a1, f.opt_label)
                                ELSE a1
                   IN  IF f.varlist # NULL /\ m.h[f.varlist].managed
                          THEN Queue_Mark_Context_Deep(a2, f.varlist)
                          ELSE a2
    IN  [m3 EXCEPT !.propagate = TRUE]

RECURSIVE Mark_Requests(_, _, _)
Mark_Requests(m, reqs, i) ==
    IF i > Len(reqs) THEN m
    ELSE Mark_Requests(
             IF reqs[i] # NULL THEN Queue_Mark_Context_Deep(m, reqs[i]) ELSE m,
             reqs, i + 1)

\* Mark_Devices_Deep that returns without propagating
Mark_Devices_Deep_NoPropagate(m) ==
    [Mark_Requests(m, devices, 1) EXCEPT !.propagate = FALSE]

Mark_Devices_Deep(m) ==
    [Mark_Requests(m, devices, 1) EXCEPT !.propagate = TRUE]

\* FIRST_BYTE(s->header) >> 4: NODE, FREE, MANAGED and MARKED
Header_Nibble(node) ==
    8 + (IF node.free THEN 4 ELSE 0) + (IF node.managed THEN 2 ELSE 0)
      + (IF node.marked THEN 1 ELSE 0)

\* Sweep_Series that stops after the first node it frees
RECURSIVE Sweep_Series_FreesOne(_, _, _)
Sweep_Series_FreesOne(h, s, count) ==
    IF s \notin GCNodes THEN [h |-> h, count |-> count, panic |-> FALSE, sweeplist |-> <<>>]
    ELSE LET nibble == Header_Nibble(h[s])
         IN  IF nibble = 10 /\ count = 0
                THEN Sweep_Series_FreesOne(GC_Kill_Series(h, s), s + 1, 1)
             ELSE IF nibble = 11 \/ nibble = 10
                THEN Sweep_Series_FreesOne([h EXCEPT ![s].marked = FALSE], s + 1,
                                           count)
             ELSE Sweep_Series_FreesOne(h, s + 1, count)

\* Sweep_Series that leaves the mark on the nodes it keeps
RECURSIVE Sweep_Series_KeepsMarks(_, _, _)
Sweep_Series_KeepsMarks(h, s, count) ==
    IF s \notin GCNodes THEN [h |-> h, count |-> count, panic |-> FALSE, sweeplist |-> <<>>]
    ELSE IF Header_Nibble(h[s]) = 10
       THEN Sweep_Series_KeepsMarks(GC_Kill_Series(h, s), s + 1, count + 1)
    ELSE Sweep_Series_KeepsMarks(h, s + 1, count)

\* the walk of the pool from the node s on
RECURSIVE Sweep_Series(_, _, _)
Sweep_Series(h, s, count) ==
    IF s \notin GCNodes THEN [h |-> h, count |-> count, panic |-> FALSE, sweeplist |-> <<>>]
    ELSE LET nibble == Header_Nibble(h[s])
         IN  IF nibble = 8 \/ nibble = 12 THEN Sweep_Series(h, s + 1, count)
             ELSE IF nibble = 10
                THEN Sweep_Series(GC_Kill_Series(h, s), s + 1, count + 1)
             ELSE IF nibble = 11
                THEN Sweep_Series([h EXCEPT ![s].marked = FALSE], s + 1, count)
             ELSE [h |-> h, count |-> count, panic |-> TRUE, sweeplist |-> <<>>]

Idle ==
    [pc |-> "idle", ret |-> "", idx |-> 0, shutdown |-> FALSE, again |-> FALSE,
     sweeplist |-> NULL]

\* a marking routine has returned m: Propagate_All_GC_Marks runs when the
\* routine ends in it, then Recycle_Core goes on at ret
Marked(m, ret, idx) ==
    /\ pool' = m.h
    /\ GC_Mark_Stack' = m.st
    /\ gc' = IF m.panic
                THEN [gc EXCEPT !.pc = "panic",
                                !.ret = IF m.reentered THEN "in_mark" ELSE "",
                                !.idx = 0]
             ELSE IF m.propagate /\ m.st # <<>>
                THEN [gc EXCEPT !.pc = "Propagate_All_GC_Marks", !.ret = ret,
                                !.idx = idx]
             ELSE [gc EXCEPT !.pc = ret, !.ret = "", !.idx = idx]

rootVars == <<GC_Guarded, DS_Array, DSP, Natives, PG_Symbol_Canons, frames,
              devices, GC_Disabled, Eval_Signals>>

\* the series a caller passes to have the nodes listed instead of freed
Sweeplist == Handle + 1

\* the debug build's flag: set while Recycle_Core runs
GC_Recycling == gc.pc \notin {"idle", "shutdown", "panic"}

\* Recycle_Core without the test of GC_Disabled
Recycle_Core_IgnoresDisabled(shutdown, sweeplist) ==
    /\ gc.pc # "panic"
    /\ IF GC_Recycling
          THEN /\ Eval_Signals' = Eval_Signals \cup {"SIG_RECYCLE"}
               /\ recycled' = [done |-> recycled.done, count |-> 0,
                               second |-> FALSE, sweeplist |-> <<>>]
               /\ UNCHANGED <<pool, GC_Mark_Stack, gc>>
          ELSE /\ gc' = [pc |-> "Mark_Root_Series", ret |-> "", idx |-> 0,
                         shutdown |-> shutdown, again |-> recycled.done,
                         sweeplist |-> sweeplist]
               /\ UNCHANGED <<pool, GC_Mark_Stack, recycled, Eval_Signals>>
    /\ UNCHANGED <<GC_Guarded, DS_Array, DSP, Natives, PG_Symbol_Canons, frames,
                   devices, GC_Disabled>>

\* Recycle_Core(shutdown, sweeplist) up to the call of Mark_Root_Series
Recycle_Core(shutdown, sweeplist) ==
    /\ gc.pc # "panic"
    /\ IF GC_Recycling \/ (~shutdown /\ GC_Disabled)
          THEN /\ Eval_Signals' = Eval_Signals \cup {"SIG_RECYCLE"}
               /\ recycled' = [done |-> recycled.done, count |-> 0,
                               second |-> FALSE, sweeplist |-> <<>>]
               /\ UNCHANGED <<pool, GC_Mark_Stack, gc>>
          ELSE /\ gc' = [pc |-> "Mark_Root_Series", ret |-> "", idx |-> 0,
                         shutdown |-> shutdown, again |-> recycled.done,
                         sweeplist |-> sweeplist]
               /\ UNCHANGED <<pool, GC_Mark_Stack, recycled, Eval_Signals>>
    /\ UNCHANGED <<GC_Guarded, DS_Array, DSP, Natives, PG_Symbol_Canons, frames,
                   devices, GC_Disabled>>

Do_Mark_Root_Series ==
    /\ gc.pc = "Mark_Root_Series"
    /\ Marked(Mark_Root_Series(Marking(pool, GC_Mark_Stack)),
              IF gc.shutdown THEN "Sweep_Series" ELSE "Mark_Natives", 0)
    /\ UNCHANGED <<rootVars, recycled>>

Do_Mark_Natives ==
    /\ gc.pc = "Mark_Natives"
    /\ Marked(Mark_Natives(Marking(pool, GC_Mark_Stack)), "Mark_Symbol_Series", 0)
    /\ UNCHANGED <<rootVars, recycled>>

Do_Mark_Symbol_Series ==
    /\ gc.pc = "Mark_Symbol_Series"
    /\ Marked(Mark_Symbol_Series(Marking(pool, GC_Mark_Stack)), "Mark_Data_Stack", 0)
    /\ UNCHANGED <<rootVars, recycled>>

Do_Mark_Data_Stack ==
    /\ gc.pc = "Mark_Data_Stack"
    /\ Marked(Mark_Data_Stack(Marking(pool, GC_Mark_Stack)), "Mark_Guarded_Nodes", 1)
    /\ UNCHANGED <<rootVars, recycled>>

\* one iteration of the loop of Mark_Guarded_Nodes; gc.idx is the index of np
Do_Mark_Guarded_Nodes ==
    /\ gc.pc = "Mark_Guarded_Nodes"
    /\ IF gc.idx > Len(GC_Guarded)
          THEN /\ gc' = [gc EXCEPT !.pc = "Mark_Frame_Stack_Deep",
                                   !.idx = Len(frames)]
               /\ UNCHANGED <<pool, GC_Mark_Stack>>
          ELSE Marked(Mark_Guarded_Node(Marking(pool, GC_Mark_Stack),
                                        GC_Guarded[gc.idx]),
                      "Mark_Guarded_Nodes", gc.idx + 1)
    /\ UNCHANGED <<rootVars, recycled>>

\* one iteration of the loop of Mark_Frame_Stack_Deep; gc.idx is the frame f,
\* from FS_TOP down to FS_BOTTOM
Do_Mark_Frame_Stack_Deep ==
    /\ gc.pc = "Mark_Frame_Stack_Deep"
    /\ Marked(Mark_Frame(Marking(pool, GC_Mark_Stack), frames[gc.idx]),
              IF gc.idx = 1 THEN "Mark_Devices_Deep" ELSE "Mark_Frame_Stack_Deep",
              gc.idx - 1)
    /\ UNCHANGED <<rootVars, recycled>>

Do_Mark_Devices_Deep ==
    /\ gc.pc = "Mark_Devices_Deep"
    /\ Marked(Mark_Devices_Deep(Marking(pool, GC_Mark_Stack)), "Sweep_Series", 0)
    /\ UNCHANGED <<rootVars, recycled>>

\* one iteration of the loop of Propagate_All_GC_Marks
Propagate_All_GC_Marks ==
    /\ gc.pc = "Propagate_All_GC_Marks"
    /\ Marked(Propagate_Pop(Marking(pool, GC_Mark_Stack)), gc.ret, gc.idx)
    /\ UNCHANGED <<rootVars, recycled>>

\* Fill_Sweeplist: the walk of the pool from the node s on
RECURSIVE Fill_Sweeplist(_, _, _, _)
Fill_Sweeplist(h, s, sweeplist, count) ==
    IF s \notin GCNodes
       THEN [h |-> h, count |-> count, panic |-> FALSE, sweeplist |-> sweeplist]
    ELSE LET nibble == Header_Nibble(h[s])
         IN  IF nibble = 9
                THEN \* assert(IS_SERIES_MANAGED(s))
                     [h |-> h, count |-> count, panic |-> TRUE,
                      sweeplist |-> sweeplist]
             ELSE IF nibble = 11
                THEN IF h[s].marked
                        THEN Fill_Sweeplist([h EXCEPT ![s].marked = FALSE], s + 1,
                                            sweeplist, count)
                        ELSE Fill_Sweeplist(h, s + 1, Append(sweeplist, s),
                                            count + 1)
             ELSE Fill_Sweeplist(h, s + 1, sweeplist, count)

\* the sweep and the return of Recycle_Core
Do_Sweep_Series ==
    /\ gc.pc = "Sweep_Series"
    /\ LET r == IF gc.sweeplist # NULL
                   THEN Fill_Sweeplist(pool, 1, <<>>, 0)
                   ELSE Sweep_Series(pool, 1, 0)
       IN  /\ pool' = r.h
           /\ IF r.panic
                 THEN /\ gc' = [gc EXCEPT !.pc = "panic"]
                      /\ UNCHANGED recycled
                 ELSE /\ gc' = IF gc.shutdown THEN [Idle EXCEPT !.pc = "shutdown"] ELSE Idle
                      /\ recycled' = [done |-> ~gc.shutdown, count |-> r.count,
                                      second |-> gc.again /\ ~gc.shutdown,
                                      sweeplist |-> r.sweeplist]
    /\ UNCHANGED <<GC_Mark_Stack, rootVars>>

\* the state of the interpreter between two recycles has changed
Mutated == recycled' = [recycled EXCEPT !.done = FALSE, !.second = FALSE]

\* the roots the interpreter holds
NumRoots ==
    Len(GC_Guarded) + (IF DSP > 0 THEN 1 ELSE 0) + Len(Natives)
        + Len(PG_Symbol_Canons) + (Len(frames) - 1) + Len(devices)

\* PUSH_GC_GUARD of a managed series
Push_Guard_Node(node) ==
    /\ gc.pc = "idle"
    /\ ~pool[node].free /\ pool[node].managed /\ ~pool[node].root
    /\ NumRoots < MaxRoots
    /\ GC_Guarded' = Append(GC_Guarded, node)
    /\ Mutated
    /\ UNCHANGED <<pool, GC_Mark_Stack, DS_Array, DSP, Natives, PG_Symbol_Canons,
                   frames, devices, GC_Disabled, Eval_Signals, gc>>

\* DS_DROP
DS_DROP ==
    /\ gc.pc = "idle"
    /\ DSP > 0
    /\ DSP' = DSP - 1
    /\ Mutated
    /\ UNCHANGED <<pool, GC_Mark_Stack, GC_Guarded, DS_Array, Natives,
                   PG_Symbol_Canons, frames, devices, GC_Disabled, Eval_Signals, gc>>

FS_TOP == frames[Len(frames)]

\* Alloc_Value, and the initialization of the cell it returns
Alloc_Value(v) ==
    /\ gc.pc = "idle"
    /\ pool[Handle].free
    /\ FS_TOP.varlist # NULL
    /\ v.node # NULL => ~pool[v.node].free /\ pool[v.node].managed
    /\ pool' = [pool EXCEPT ![Handle] =
                    [Make_Node("array", TRUE) EXCEPT !.root = TRUE,
                                                     !.cells = <<v>>,
                                                     !.link = FS_TOP.varlist]]
    /\ Mutated
    /\ UNCHANGED <<GC_Mark_Stack, rootVars, gc>>

Free_Value ==
    /\ gc.pc = "idle"
    /\ ~pool[Handle].free
    /\ pool' = GC_Kill_Series(pool, Handle)
    /\ Mutated
    /\ UNCHANGED <<GC_Mark_Stack, rootVars, gc>>

\* the frame FS_TOP ends, normally or by a failure; the data of its managed
\* varlist is released and the varlist is left inaccessible
Drop_Frame(failed) ==
    /\ gc.pc = "idle"
    /\ Len(frames) > 1
    /\ frames' = SubSeq(frames, 1, Len(frames) - 1)
    /\ IF FS_TOP.varlist # NULL /\ ~pool[FS_TOP.varlist].free
          THEN pool' = [pool EXCEPT ![FS_TOP.varlist] =
                            [@ EXCEPT !.inaccessible = TRUE, !.failed = failed,
                                      !.cells = <<>>, !.keysource_cell = FALSE,
                                      !.link = FS_TOP.original]]
          ELSE /\ pool' = pool
               /\ ~failed
    /\ Mutated
    /\ UNCHANGED <<GC_Mark_Stack, GC_Guarded, DS_Array, DSP, Natives,
                   PG_Symbol_Canons, devices, GC_Disabled, Eval_Signals, gc>>

\* the reference cells the arrays of the initial heap may hold
EdgeCandidates ==
    << [src |-> BlockX, cell |-> Cell("BLOCK", BlockX, NULL)],
       [src |-> BlockX, cell |-> Cell("BLOCK", BlockY, NULL)],
       [src |-> BlockX, cell |-> Cell("FRAME", Ctx, Act)],
       [src |-> BlockX, cell |-> Cell("ACTION", Act, NULL)],
       [src |-> BlockX, cell |-> Cell("WORD", Text, NULL)],
       [src |-> BlockY, cell |-> Cell("BLOCK", BlockX, NULL)],
       [src |-> BlockY, cell |-> Cell("TEXT", Text, NULL)],
       [src |-> Ctx, cell |-> Cell("BLOCK", BlockY, NULL)],
       [src |-> Details, cell |-> Cell("BLOCK", BlockX, NULL)],
       [src |-> Act, cell |-> Cell("P_NORMAL", Text, NULL)] >>

\* the cells of the node s among the chosen candidates, from candidate i on
RECURSIVE Cells_Of(_, _, _)
Cells_Of(s, chosen, i) ==
    IF i > Len(EdgeCandidates) THEN <<>>
    ELSE IF i \in chosen /\ EdgeCandidates[i].src = s
       THEN <<EdgeCandidates[i].cell>> \o Cells_Of(s, chosen, i + 1)
    ELSE Cells_Of(s, chosen, i + 1)

\* the heap the interpreter has built: the chosen cells, BlockX manual or
\* managed, BlockY with or without a file string, the frame of Ctx running or
\* not
Make_Heap(chosen, manual, file_line, running) ==
    [s \in GCNodes |->
        IF s = Handle THEN FreeNode
        ELSE LET class == IF s = Text THEN "string"
                          ELSE IF s = Ctx THEN "varlist"
                          ELSE IF s = Act THEN "paramlist"
                          ELSE "array"
             IN  [Make_Node(class, ~(s = BlockX /\ manual)) EXCEPT
                     !.cells = Cells_Of(s, chosen, 1),
                     !.file_line = (s = BlockY /\ file_line),
                     !.keysource_cell = (s = Ctx /\ running),
                     !.link = IF s = BlockY /\ file_line THEN Text
                              ELSE IF s = Ctx /\ ~running THEN Act
                              ELSE IF s = Act THEN Act
                              ELSE IF s = Details THEN Act
                              ELSE NULL,
                     !.details = IF s = Act THEN Details ELSE NULL]]

RootKinds == {"ds", "native", "symbol", "eval", "action", "device"}

FS_BOTTOM ==
    [array |-> NULL, out |-> END_Cell, original |-> NULL, opt_label |-> NULL,
     varlist |-> NULL]

\* a frame evaluating BlockY
Eval_Frame ==
    [array |-> BlockY, out |-> Cell("TEXT", Text, NULL), original |-> NULL,
     opt_label |-> NULL, varlist |-> NULL]

\* a frame running Act with the managed varlist Ctx
Action_Frame ==
    [array |-> NULL, out |-> END_Cell, original |-> Act, opt_label |-> Text,
     varlist |-> Ctx]

No_Recycle == [done |-> FALSE, count |-> 0, second |-> FALSE, sweeplist |-> <<>>]

\* the collector with an empty pool, as the other subsystems see it
GC_Quiet ==
    /\ pool = [s \in GCNodes |-> FreeNode]
    /\ GC_Mark_Stack = <<>>
    /\ GC_Guarded = <<>>
    /\ DS_Array = <<>>
    /\ DSP = 0
    /\ Natives = <<>>
    /\ PG_Symbol_Canons = <<>>
    /\ frames = <<FS_BOTTOM>>
    /\ devices = <<>>
    /\ GC_Disabled = FALSE
    /\ Eval_Signals = {}
    /\ gc = Idle
    /\ recycled = No_Recycle

\* Startup_GC, followed by the interpreter building a heap and its roots
Startup_GC ==
    \E chosen \in SUBSET (1..Len(EdgeCandidates)), manual \in BOOLEAN,
       file_line \in BOOLEAN, roots \in SUBSET RootKinds :
        /\ Cardinality(chosen) + (IF file_line THEN 1 ELSE 0) <= MaxEdges
        /\ Cardinality(roots) <= MaxRoots
        /\ manual => \A i \in chosen : EdgeCandidates[i].cell.node # BlockX
        /\ pool = Make_Heap(chosen, manual, file_line, "action" \in roots)
        /\ GC_Mark_Stack = <<>>
        /\ GC_Guarded = <<>>
        /\ DS_Array = <<Cell("TEXT", Text, NULL), Cell("BLOCK", BlockY, NULL)>>
        /\ DSP = IF "ds" \in roots THEN 2 ELSE 0
        /\ Natives = IF "native" \in roots THEN <<Cell("ACTION", Act, NULL)>>
                     ELSE <<>>
        /\ PG_Symbol_Canons = IF "symbol" \in roots THEN <<Text>> ELSE <<>>
        /\ frames = <<FS_BOTTOM>>
                    \o (IF "eval" \in roots THEN <<Eval_Frame>> ELSE <<>>)
                    \o (IF "action" \in roots THEN <<Action_Frame>> ELSE <<>>)
        /\ devices = IF "device" \in roots THEN <<Ctx>> ELSE <<>>
        /\ GC_Disabled = FALSE
        /\ Eval_Signals = {}
        /\ gc = Idle
        /\ recycled = No_Recycle

(***************************************************************************)
(* Paramlist builder (src/core/c-function.c)                               *)
(*                                                                         *)
(* mk holds the arguments and locals of one call of                        *)
(* Make_Paramlist_Managed_May_Fail; mk.ds is the part of the data stack    *)
(* above dsp_orig, so that DSP - dsp_orig = Len(mk.ds).  mk.ndebug tells   *)
(* whether the build is a release build (asserts compiled out).            *)
(***************************************************************************)
Paramlist_Node == 1

UNBOUND == NULL

Item(type, spelling) == [type |-> type, spelling |-> spelling]

SpecItems ==
    { Item("WORD", "x"), Item("WORD", "return"), Item("SET_WORD", "return"),
      Item("SET_WORD", "Return"), Item("SET_WORD", "y"),
      Item("REFINEMENT", "r"), Item("REFINEMENT", "return"),
      Item("TAG", "local"), Item("TAG", "with"),
      Item("STRING", ""), Item("STRING", "doc"),
      Item("BLOCK", "integer!"), Item("BLOCK", "") }

Specs == UNION { [1..n -> SpecItems] : n \in 0..MaxSpecLen }

FlagSets ==
    { {"MKF_KEYWORDS"},
      {"MKF_KEYWORDS", "MKF_RETURN"},
      {"MKF_KEYWORDS", "MKF_LEAVE"},
      {"MKF_KEYWORDS", "MKF_FAKE_RETURN"},
      {"MKF_KEYWORDS", "MKF_RETURN", "MKF_LEAVE"},
      {"MKF_RETURN"} }

\* case folding of a spelling to the spelling of its canon
Canon_Spelling(spelling) == IF spelling = "Return" THEN "return" ELSE spelling

ANY_WORD(item) == item.type \in {"WORD", "SET_WORD", "GET_WORD", "LIT_WORD",
                                 "REFINEMENT", "ISSUE"}

\* the kinds of value the typesets of the model tell apart
Kinds == {"INTEGER", "STRING", "MAX_VOID", "FUNCTION"}

ALL_64 == Kinds

\* the bits a new parameter gets without MKF_ANY_VALUE
Default_Bits == ALL_64 \ {"MAX_VOID", "FUNCTION"}

\* cells pushed to the data stack: TYPESET! BLOCK! STRING! triples; hidden is
\* TYPESET_FLAG_HIDDEN, which the builder never sets
Init_Typeset(bits, spelling, class) ==
    [t |-> "TYPESET", spelling |-> spelling, class |-> class, empty |-> FALSE,
     bits |-> bits, hidden |-> FALSE]

EMPTY_BLOCK ==
    [t |-> "BLOCK", spelling |-> "", class |-> "", empty |-> TRUE, bits |-> {},
     hidden |-> FALSE]

EMPTY_STRING ==
    [t |-> "STRING", spelling |-> "", class |-> "", empty |-> TRUE, bits |-> {},
     hidden |-> FALSE]

Init_Block ==
    [t |-> "BLOCK", spelling |-> "", class |-> "", empty |-> FALSE, bits |-> {},
     hidden |-> FALSE]

\* a string cell; spelling holds the characters Copy_String_Slimming copied
Init_String(content) ==
    [t |-> "STRING", spelling |-> content, class |-> "", empty |-> FALSE,
     bits |-> {}, hidden |-> FALSE]

Init_Void ==
    [t |-> "MAX_VOID", spelling |-> "", class |-> "", empty |-> FALSE, bits |-> {},
     hidden |-> FALSE]

Init_Unreadable_Blank ==
    [t |-> "BLANK", spelling |-> "", class |-> "", empty |-> FALSE, bits |-> {},
     hidden |-> FALSE]

\* the tags a block of types may hold, <custom> being one that is no keyword
Block_Tags == {"<...>", "<end>", "<blank>", "<opt>", "<skip>", "<custom>"}

\* the bits a block of datatypes sets, after clearing the typeset.  The
\* block of the model has at most one element, item.spelling; MAX_VOID is
\* the bit of the kind past the last datatype, which <opt> sets.
Update_Typeset_Bits_Core(typeset, item) ==
    LET e == item.spelling
        set(bits) == [failed |-> FALSE, bits |-> bits]
    IN  IF e = "" THEN set({})
        ELSE IF e \in Block_Tags
        THEN IF e = "<...>" THEN set({"TS_VARIADIC"})
             ELSE IF e = "<end>" THEN set({"TS_ENDABLE"})
             ELSE IF e = "<blank>" THEN set({"TS_NOOP_IF_BLANK"})
             ELSE IF e = "<opt>" THEN set({"MAX_VOID"})
             ELSE IF e = "<skip>"
             THEN IF typeset.class # "PARAM_CLASS_HARD_QUOTE"
                     THEN [failed |-> TRUE, bits |-> {}]
                     ELSE set({"TS_SKIPPABLE", "TS_ENDABLE"})
             ELSE set({})
        ELSE IF e = "integer!" THEN set({"INTEGER"})
        ELSE [failed |-> TRUE, bits |-> {}]

TYPE_CHECK(typeset, kind) == kind \in typeset.bits

DS_TOP(ds) == ds[Len(ds)]

IS_TYPESET(c) == c.t = "TYPESET"

IS_BLOCK(c) == c.t = "BLOCK"

VAL_PARAM_SPELLING(p) == p.spelling

VAL_PARAM_CANON(p) == Canon_Spelling(VAL_PARAM_SPELLING(p))

VAL_PARAM_SYM(p) == VAL_PARAM_CANON(p)

VAL_PARAM_CLASS(p) == p.class

\* MISC(paramlist).meta when no meta object is made
No_Meta == [null |-> TRUE, description |-> Init_Void]

No_Paramlist ==
    [node |-> NULL, len |-> 0, facade |-> NULL, managed |-> FALSE,
     cells |-> <<>>, meta |-> No_Meta]

No_Call ==
    [pc |-> "none", ndebug |-> FALSE, spec |-> <<>>, value |-> 1,
     flags |-> {}, header_bits |-> {}, mode |-> "SPEC_MODE_NORMAL", ds |-> <<>>,
     definitional_return_dsp |-> 0, definitional_leave_dsp |-> 0,
     has_description |-> FALSE, has_types |-> FALSE, has_notes |-> FALSE,
     refinement_seen |-> FALSE, num_slots |-> 0, binder |-> {}, error |-> "",
     mkf_flags |-> {}, code_empty |-> FALSE, dispatcher |-> ""]

Call(spec, flags, ndebug) ==
    [No_Call EXCEPT !.pc = "call", !.spec = spec, !.flags = flags,
                    !.mkf_flags = flags, !.ndebug = ndebug]

\* fail () leaves the function by longjmp: no paramlist is returned
Fail(m) == [m EXCEPT !.pc = "failed", !.error = "Error_Bad_Func_Def"]

\* a failed assert ends a debug build; a release build goes on
Asserted(m, cond, then) == IF ~cond /\ ~m.ndebug THEN [m EXCEPT !.pc = "asserted"] ELSE then

\* entry of the function up to the spec loop
Enter_Make_Paramlist(m) ==
    LET fake == ~m.ndebug /\ "MKF_FAKE_RETURN" \in m.flags
        m1 == [m EXCEPT
                 !.pc = "scan",
                 !.header_bits = IF fake THEN {"FUNC_FLAG_RETURN_DEBUG"} ELSE {},
                 !.flags = IF fake
                           THEN (m.flags \ {"MKF_FAKE_RETURN"}) \cup {"MKF_RETURN"}
                           ELSE m.flags,
                 !.ds = <<Init_Unreadable_Blank, EMPTY_BLOCK, EMPTY_STRING>>]
    IN  IF fake THEN Asserted(m, "MKF_RETURN" \notin m.flags, m1) ELSE m1

\* the variant that keeps a string that was already pushed
Scan_String_KeepsFirst(m, item) ==
    IF m.mode = "SPEC_MODE_WITH" THEN m
    ELSE LET ds1 == IF IS_TYPESET(DS_TOP(m.ds)) THEN Append(m.ds, EMPTY_BLOCK)
                    ELSE m.ds
             ds2 == IF IS_BLOCK(DS_TOP(ds1))
                    THEN Append(ds1, Init_String(item.spelling))
                    ELSE IF DS_TOP(ds1).empty
                    THEN [ds1 EXCEPT ![Len(ds1)] = Init_String(item.spelling)]
                    ELSE ds1
         IN  [m EXCEPT !.ds = ds2,
                       !.has_description = @ \/ Len(ds2) = 3,
                       !.has_notes = @ \/ Len(ds2) # 3]

\* STRING! item: function description or parameter note
Scan_String(m, item) ==
    IF m.mode = "SPEC_MODE_WITH" THEN m
    ELSE LET ds1 == IF IS_TYPESET(DS_TOP(m.ds)) THEN Append(m.ds, EMPTY_BLOCK)
                    ELSE m.ds
             ds2 == IF IS_BLOCK(DS_TOP(ds1))
                    THEN Append(ds1, Init_String(item.spelling))
                    ELSE [ds1 EXCEPT ![Len(ds1)] = Init_String(item.spelling)]
         IN  [m EXCEPT !.ds = ds2,
                       !.has_description = @ \/ Len(ds2) = 3,
                       !.has_notes = @ \/ Len(ds2) # 3]

\* the variant in which a tag changes the mode only from NORMAL mode
Scan_Tag_FromNormalOnly(m, item) ==
    IF item.spelling \notin {"with", "local"} THEN Fail(m)
    ELSE IF m.mode # "SPEC_MODE_NORMAL" THEN m
    ELSE IF item.spelling = "with" THEN [m EXCEPT !.mode = "SPEC_MODE_WITH"]
    ELSE [m EXCEPT !.mode = "SPEC_MODE_LOCAL"]

\* top-level spec tags
Scan_Tag(m, item) ==
    IF item.spelling = "with" THEN [m EXCEPT !.mode = "SPEC_MODE_WITH"]
    ELSE IF item.spelling = "local" THEN [m EXCEPT !.mode = "SPEC_MODE_LOCAL"]
    ELSE Fail(m)

\* BLOCK! of types
Scan_Block(m, item) ==
    LET dsp == Len(m.ds)
        typeset == IF IS_TYPESET(DS_TOP(m.ds)) THEN m.ds[dsp] ELSE m.ds[dsp - 2]
        updated == Update_Typeset_Bits_Core(typeset, item)
        bits == updated.bits
        opt == m.refinement_seen /\ "MAX_VOID" \in bits
    IN  IF IS_BLOCK(DS_TOP(m.ds)) THEN Fail(m)
        ELSE IF m.mode # "SPEC_MODE_NORMAL" THEN Fail(m)
        ELSE IF IS_TYPESET(DS_TOP(m.ds))
        THEN IF updated.failed THEN [m EXCEPT !.pc = "failed", !.error = "Error_User"]
             ELSE IF opt THEN [m EXCEPT !.pc = "failed", !.error = "Error_Refinement_Arg_Opt"]
             ELSE [m EXCEPT !.ds = Append([m.ds EXCEPT ![dsp].bits = bits], Init_Block),
                            !.has_types = TRUE]
        ELSE IF m.ds[dsp - 2].t = "BLANK" THEN Fail(m)
        ELSE IF ~m.ds[dsp - 1].empty THEN Fail(m)
        ELSE IF updated.failed THEN [m EXCEPT !.pc = "failed", !.error = "Error_User"]
        ELSE IF opt THEN [m EXCEPT !.pc = "failed", !.error = "Error_Refinement_Arg_Opt"]
        ELSE [m EXCEPT !.ds = [m.ds EXCEPT ![dsp - 1] = Init_Block,
                                           ![dsp - 2].bits = bits],
                       !.has_types = TRUE]

\* the parameter class an any-word item gets
Class_Of_Item(m, item) ==
    CASE item.type = "WORD" ->
             IF m.mode = "SPEC_MODE_LOCAL" THEN "PARAM_CLASS_LOCAL"
             ELSE "PARAM_CLASS_NORMAL"
      [] item.type = "GET_WORD" -> "PARAM_CLASS_HARD_QUOTE"
      [] item.type = "LIT_WORD" -> "PARAM_CLASS_SOFT_QUOTE"
      [] item.type = "REFINEMENT" -> "PARAM_CLASS_REFINEMENT"
      [] item.type = "SET_WORD" -> "PARAM_CLASS_LOCAL"
      [] OTHER -> "PARAM_CLASS_TIGHT"

\* the variant in which a word spelled return never cancels the definitional
\* return
Scan_Word_KeepsReturn(m, item) ==
    LET mode == IF m.mode # "SPEC_MODE_NORMAL" /\ item.type = "REFINEMENT"
                THEN "SPEC_MODE_NORMAL" ELSE m.mode
        canon == Canon_Spelling(item.spelling)
        ds1 == IF IS_TYPESET(DS_TOP(m.ds)) THEN Append(m.ds, EMPTY_BLOCK)
               ELSE m.ds
        ds2 == IF IS_BLOCK(DS_TOP(ds1)) THEN Append(ds1, EMPTY_STRING) ELSE ds1
        dsp == Len(ds2) + 1
        is_return == canon = "return" /\ "MKF_LEAVE" \notin m.flags
        is_leave == /\ ~is_return
                    /\ canon = "leave"
                    /\ m.flags \cap {"MKF_RETURN", "MKF_FAKE_RETURN"} = {}
        m1 == [m EXCEPT
                 !.mode = mode,
                 !.definitional_return_dsp =
                     IF is_return /\ item.type = "SET_WORD" THEN dsp ELSE @,
                 !.definitional_leave_dsp =
                     IF is_leave /\ item.type = "SET_WORD" THEN dsp ELSE @,
                 !.flags =
                     IF is_leave /\ item.type # "SET_WORD"
                     THEN @ \ {"MKF_LEAVE"}
                     ELSE @,
                 !.refinement_seen = @ \/ (item.type = "REFINEMENT"
                                           /\ ~(mode = "SPEC_MODE_WITH")),
                 !.ds = IF mode = "SPEC_MODE_WITH" /\ item.type # "SET_WORD"
                        THEN ds2
                        ELSE Append(ds2, Init_Typeset(Default_Bits, item.spelling,
                                                      Class_Of_Item([m EXCEPT !.mode = mode], item)))]
    IN  IF m.mode # "SPEC_MODE_NORMAL" /\ item.type \notin {"REFINEMENT", "WORD", "SET_WORD"}
        THEN Fail(m)
        ELSE Asserted(m, (is_return => m.definitional_return_dsp = 0)
                         /\ (is_leave => m.definitional_leave_dsp = 0), m1)

\* the variant that gives the externs of <with> a slot like any other word
Scan_Word_KeepsExterns(m, item) ==
    LET mode == IF m.mode # "SPEC_MODE_NORMAL" /\ item.type = "REFINEMENT"
                THEN "SPEC_MODE_NORMAL" ELSE m.mode
        canon == Canon_Spelling(item.spelling)
        ds1 == IF IS_TYPESET(DS_TOP(m.ds)) THEN Append(m.ds, EMPTY_BLOCK)
               ELSE m.ds
        ds2 == IF IS_BLOCK(DS_TOP(ds1)) THEN Append(ds1, EMPTY_STRING) ELSE ds1
        dsp == Len(ds2) + 1
        is_return == canon = "return" /\ "MKF_LEAVE" \notin m.flags
        is_leave == /\ ~is_return
                    /\ canon = "leave"
                    /\ m.flags \cap {"MKF_RETURN", "MKF_FAKE_RETURN"} = {}
        m1 == [m EXCEPT
                 !.mode = mode,
                 !.definitional_return_dsp =
                     IF is_return /\ item.type = "SET_WORD" THEN dsp ELSE @,
                 !.definitional_leave_dsp =
                     IF is_leave /\ item.type = "SET_WORD" THEN dsp ELSE @,
                 !.flags =
                     IF is_return /\ item.type # "SET_WORD"
                     THEN @ \ {"MKF_RETURN", "MKF_FAKE_RETURN"}
                     ELSE IF is_leave /\ item.type # "SET_WORD"
                     THEN @ \ {"MKF_LEAVE"}
                     ELSE @,
                 !.refinement_seen = @ \/ (item.type = "REFINEMENT"
                                           /\ ~(mode = "SPEC_MODE_WITH")),
                 !.ds = Append(ds2, Init_Typeset(Default_Bits, item.spelling,
                                                 Class_Of_Item([m EXCEPT !.mode = mode], item)))]
    IN  IF m.mode # "SPEC_MODE_NORMAL" /\ item.type \notin {"REFINEMENT", "WORD", "SET_WORD"}
        THEN Fail(m)
        ELSE Asserted(m, (is_return => m.definitional_return_dsp = 0)
                         /\ (is_leave => m.definitional_leave_dsp = 0), m1)

\* ANY-WORD! item: a parameter, a local or an extern
Scan_Word(m, item) ==
    LET mode == IF m.mode # "SPEC_MODE_NORMAL" /\ item.type = "REFINEMENT"
                THEN "SPEC_MODE_NORMAL" ELSE m.mode
        canon == Canon_Spelling(item.spelling)
        ds1 == IF IS_TYPESET(DS_TOP(m.ds)) THEN Append(m.ds, EMPTY_BLOCK)
               ELSE m.ds
        ds2 == IF IS_BLOCK(DS_TOP(ds1)) THEN Append(ds1, EMPTY_STRING) ELSE ds1
        dsp == Len(ds2) + 1
        is_return == canon = "return" /\ "MKF_LEAVE" \notin m.flags
        is_leave == /\ ~is_return
                    /\ canon = "leave"
                    /\ m.flags \cap {"MKF_RETURN", "MKF_FAKE_RETURN"} = {}
        m1 == [m EXCEPT
                 !.mode = mode,
                 !.definitional_return_dsp =
                     IF is_return /\ item.type = "SET_WORD" THEN dsp ELSE @,
                 !.definitional_leave_dsp =
                     IF is_leave /\ item.type = "SET_WORD" THEN dsp ELSE @,
                 !.flags =
                     IF is_return /\ item.type # "SET_WORD"
                     THEN @ \ {"MKF_RETURN", "MKF_FAKE_RETURN"}
                     ELSE IF is_leave /\ item.type # "SET_WORD"
                     THEN @ \ {"MKF_LEAVE"}
                     ELSE @,
                 !.refinement_seen = @ \/ (item.type = "REFINEMENT"
                                           /\ ~(mode = "SPEC_MODE_WITH")),
                 !.ds = IF mode = "SPEC_MODE_WITH" /\ item.type # "SET_WORD"
                        THEN ds2
                        ELSE Append(ds2, Init_Typeset(Default_Bits, item.spelling,
                                                      Class_Of_Item([m EXCEPT !.mode = mode], item)))]
    IN  IF m.mode # "SPEC_MODE_NORMAL" /\ item.type \notin {"REFINEMENT", "WORD", "SET_WORD"}
        THEN Fail(m)
        ELSE Asserted(m, (is_return => m.definitional_return_dsp = 0)
                         /\ (is_leave => m.definitional_leave_dsp = 0), m1)

\* one iteration of the loop over the spec block
Scan_Item(m) ==
    LET item == m.spec[m.value]
        m0 == [m EXCEPT !.value = @ + 1]
    IN  IF item.type = "STRING" THEN Scan_String(m0, item)
        ELSE IF item.type = "TAG" /\ "MKF_KEYWORDS" \in m.flags THEN Scan_Tag(m0, item)
        ELSE IF item.type = "BLOCK" THEN Scan_Block(m0, item)
        ELSE IF ~ANY_WORD(item) THEN Fail(m0)
        ELSE Scan_Word(m0, item)

\* flesh out the last TYPESET! BLOCK! STRING! triple
Flesh_Out(ds) ==
    LET ds1 == IF IS_TYPESET(DS_TOP(ds)) THEN Append(ds, EMPTY_BLOCK) ELSE ds
    IN  IF IS_BLOCK(DS_TOP(ds1)) THEN Append(ds1, EMPTY_STRING) ELSE ds1

\* definitional LEAVE: synthesize the local or reclassify the spec's leave:
Add_Definitional_Leave(m) ==
    IF "MKF_LEAVE" \notin m.flags THEN m
    ELSE IF m.definitional_leave_dsp = 0
    THEN [m EXCEPT
            !.ds = m.ds \o <<Init_Typeset({"MAX_VOID"}, "leave", "PARAM_CLASS_LEAVE"),
                             EMPTY_BLOCK, EMPTY_STRING>>,
            !.definitional_leave_dsp = Len(m.ds) + 1,
            !.header_bits = @ \cup {"FUNC_FLAG_LEAVE"}]
    ELSE Asserted(m,
            VAL_PARAM_CLASS(m.ds[m.definitional_leave_dsp]) = "PARAM_CLASS_LOCAL",
            [m EXCEPT
               !.ds = [m.ds EXCEPT ![m.definitional_leave_dsp].class = "PARAM_CLASS_LEAVE"],
               !.header_bits = @ \cup {"FUNC_FLAG_LEAVE"}])

\* definitional RETURN: synthesize the local or reclassify the spec's return:
Add_Definitional_Return(m) ==
    IF "MKF_RETURN" \notin m.flags THEN m
    ELSE IF m.definitional_return_dsp = 0
    THEN [m EXCEPT
            !.ds = m.ds \o <<Init_Typeset(
                                 IF m.has_description \/ m.has_types \/ m.has_notes
                                 THEN Default_Bits ELSE ALL_64,
                                 "return", "PARAM_CLASS_RETURN"),
                             EMPTY_BLOCK, EMPTY_STRING>>,
            !.definitional_return_dsp = Len(m.ds) + 1,
            !.header_bits = @ \cup {"FUNC_FLAG_RETURN"}]
    ELSE Asserted(m,
            VAL_PARAM_CLASS(m.ds[m.definitional_return_dsp]) = "PARAM_CLASS_LOCAL",
            [m EXCEPT
               !.ds = [m.ds EXCEPT ![m.definitional_return_dsp].class = "PARAM_CLASS_RETURN"],
               !.header_bits = @ \cup {"FUNC_FLAG_RETURN"}])

\* the variant that never leaves the fake return out of the slot count
Num_Slots_KeepsFake(m) == Len(m.ds) \div 3

\* slots of the paramlist, the rootparam included
Num_Slots(m) ==
    IF m.definitional_return_dsp # 0 /\ "MKF_FAKE_RETURN" \in m.flags
    THEN (Len(m.ds) \div 3) - 1
    ELSE Len(m.ds) \div 3

\* the steps between the spec loop and the making of the paramlist
Add_Definitionals(m) ==
    LET m1 == Add_Definitional_Leave([m EXCEPT !.ds = Flesh_Out(m.ds)])
        m2 == IF m1.pc = "asserted" THEN m1 ELSE Add_Definitional_Return(m1)
    IN  IF m2.pc = "asserted" THEN m2
        ELSE [m2 EXCEPT !.pc = "copy", !.num_slots = Num_Slots(m2)]

\* the typesets of the data stack, every third cell after the first triple
Stack_Typesets(m) == [i \in 1..((Len(m.ds) \div 3) - 1) |-> 3 * i + 1]

\* the variant that copies the definitional return where the spec has it
Copy_Params_InPlace(m) ==
    LET srcs == Stack_Typesets(m)
        keep == SelectSeq(srcs, LAMBDA src :
                    ~(src = m.definitional_return_dsp
                      /\ "MKF_FAKE_RETURN" \in m.flags))
    IN  [i \in 1..Len(keep) |-> m.ds[keep[i]]]

\* the parameter cells written after the archetype
Copy_Params(m) ==
    LET srcs == Stack_Typesets(m)
        keep == SelectSeq(srcs, LAMBDA src : src # m.definitional_return_dsp)
        copied == [i \in 1..Len(keep) |-> m.ds[keep[i]]]
    IN  IF m.definitional_return_dsp # 0 /\ "MKF_FAKE_RETURN" \notin m.flags
        THEN Append(copied, m.ds[m.definitional_return_dsp])
        ELSE copied

\* the canon function value in slot 0
Archetype(m, node) ==
    [t |-> "FUNCTION", flags |-> m.header_bits, paramlist |-> node,
     binding |-> UNBOUND]

\* the binder is the set of the canons that have a nonzero bind index
Try_Add_Binder_Index(binder, canon) ==
    IF canon \in binder THEN [ok |-> FALSE, binder |-> binder]
    ELSE [ok |-> TRUE, binder |-> binder \cup {canon}]

Remove_Binder_Index_Else_0(binder, canon) ==
    IF canon \in binder THEN [index |-> 1020, binder |-> binder \ {canon}]
    ELSE [index |-> 0, binder |-> binder]

\* the loop that adds the canon of every typeset of the stack to the binder
RECURSIVE Add_Binder_Indexes(_, _, _)
Add_Binder_Indexes(m, i, b) ==
    LET srcs == Stack_Typesets(m)
    IN  IF i > Len(srcs) THEN b
        ELSE LET r == Try_Add_Binder_Index(b.binder, VAL_PARAM_CANON(m.ds[srcs[i]]))
             IN  Add_Binder_Indexes(m, i + 1,
                    [binder |-> r.binder,
                     duplicate |-> IF r.ok THEN b.duplicate
                                   ELSE VAL_PARAM_SPELLING(m.ds[srcs[i]])])

\* the variant of the removal loop that ends at the first index of 0
RECURSIVE Remove_Binder_Indexes_StopsAtZero(_, _, _)
Remove_Binder_Indexes_StopsAtZero(m, i, binder) ==
    LET srcs == Stack_Typesets(m)
    IN  IF i > Len(srcs) THEN binder
        ELSE LET r == Remove_Binder_Index_Else_0(binder, VAL_PARAM_CANON(m.ds[srcs[i]]))
             IN  IF r.index = 0 THEN r.binder
                 ELSE Remove_Binder_Indexes_StopsAtZero(m, i + 1, r.binder)

\* the loop that removes the binder indexes of all words
RECURSIVE Remove_Binder_Indexes(_, _, _)
Remove_Binder_Indexes(m, i, binder) ==
    LET srcs == Stack_Typesets(m)
    IN  IF i > Len(srcs) THEN binder
        ELSE LET r == Remove_Binder_Index_Else_0(binder, VAL_PARAM_CANON(m.ds[srcs[i]]))
             IN  Remove_Binder_Indexes(m, i + 1, r.binder)

\* the meta object, of which the model keeps the description field
Make_Meta(m) ==
    IF m.has_description \/ m.has_types \/ m.has_notes
    THEN [null |-> FALSE,
          description |-> IF m.has_description THEN m.ds[3] ELSE Init_Void]
    ELSE No_Meta

\* Make_Array_Core up to MANAGE_ARRAY, then the return of the function
Build_Paramlist(m) ==
    LET ok == m.definitional_return_dsp # 0 /\ "MKF_FAKE_RETURN" \notin m.flags
                  => "MKF_RETURN" \in m.flags
        added == Add_Binder_Indexes(m, 1, [binder |-> m.binder, duplicate |-> ""])
        removed == Remove_Binder_Indexes(m, 1, added.binder)
        built == [node |-> Paramlist_Node, len |-> m.num_slots,
                  facade |-> Paramlist_Node, managed |-> TRUE,
                  cells |-> <<Archetype(m, Paramlist_Node)>> \o Copy_Params(m),
                  meta |-> Make_Meta(m)]
    IN  IF ~ok /\ ~m.ndebug
        THEN [m |-> [m EXCEPT !.pc = "asserted", !.binder = added.binder],
              paramlist |-> No_Paramlist]
        ELSE IF added.duplicate # ""
        THEN [m |-> [m EXCEPT !.pc = "failed", !.error = "Error_Dup_Vars",
                              !.binder = removed],
              paramlist |-> No_Paramlist]
        ELSE [m |-> [m EXCEPT !.pc = "returned", !.ds = <<>>, !.binder = removed],
              paramlist |-> built]

\* the asserts Make_Function opens with
Make_Function_Asserts(p) ==
    /\ p.managed
    /\ p.cells[1].t = "FUNCTION"
    /\ p.cells[1].paramlist = p.node
    /\ p.cells[1].binding = UNBOUND

(***************************************************************************)
(* Making functions (src/core/c-function.c)                                *)
(***************************************************************************)
\* the spec loop run to its end
RECURSIVE Scan_All(_)
Scan_All(m) ==
    IF m.pc # "scan" THEN m
    ELSE IF m.value > Len(m.spec) THEN Add_Definitionals(m)
    ELSE Scan_All(Scan_Item(m))

\* one whole call of Make_Paramlist_Managed_May_Fail
Paramlist_Of(spec, flags, ndebug) ==
    LET m == Scan_All(Enter_Make_Paramlist(Call(spec, flags, ndebug)))
    IN  IF m.pc = "copy" THEN Build_Paramlist(m)
        ELSE [m |-> m, paramlist |-> No_Paramlist]

No_Facade == [node |-> NULL, len |-> 0, cells |-> <<>>, specialized |-> {}]

No_Exemplar == [null |-> TRUE, vars |-> <<>>]

\* the function flags Make_Function caches in the archetype
GET_TYPESET_FLAG_HIDDEN(param) == param.hidden

\* the variant of the loop that passes over a hidden refinement
RECURSIVE First_Arg_Flags_HiddenRefinement(_, _, _)
First_Arg_Flags_HiddenRefinement(cells, i, first_arg) ==
    IF i > Len(cells) THEN {}
    ELSE LET param == cells[i]
             class == VAL_PARAM_CLASS(param)
             first == first_arg /\ ~GET_TYPESET_FLAG_HIDDEN(param)
         IN  IF class = "PARAM_CLASS_REFINEMENT" /\ ~GET_TYPESET_FLAG_HIDDEN(param)
                THEN First_Arg_Flags_HiddenRefinement(cells, i + 1, FALSE)
             ELSE IF class = "PARAM_CLASS_NORMAL" /\ first
                THEN {"FUNC_FLAG_DEFERS_LOOKBACK"}
                        \cup First_Arg_Flags_HiddenRefinement(cells, i + 1, FALSE)
             ELSE IF class = "PARAM_CLASS_TIGHT" /\ first
                THEN First_Arg_Flags_HiddenRefinement(cells, i + 1, FALSE)
             ELSE IF class \in {"PARAM_CLASS_HARD_QUOTE", "PARAM_CLASS_SOFT_QUOTE"}
                     /\ first
                THEN {"FUNC_FLAG_QUOTES_FIRST_ARG"}
                        \cup First_Arg_Flags_HiddenRefinement(cells, i + 1, FALSE)
             ELSE First_Arg_Flags_HiddenRefinement(cells, i + 1, first_arg)

\* the loop over the parameters that finds what the first argument is
RECURSIVE First_Arg_Flags(_, _, _)
First_Arg_Flags(cells, i, first_arg) ==
    IF i > Len(cells) THEN {}
    ELSE LET param == cells[i]
             class == VAL_PARAM_CLASS(param)
             first == first_arg /\ ~GET_TYPESET_FLAG_HIDDEN(param)
         IN  IF class = "PARAM_CLASS_REFINEMENT"
                THEN First_Arg_Flags(cells, i + 1, FALSE)
             ELSE IF class = "PARAM_CLASS_NORMAL" /\ first
                THEN {"FUNC_FLAG_DEFERS_LOOKBACK"}
                        \cup First_Arg_Flags(cells, i + 1, FALSE)
             ELSE IF class = "PARAM_CLASS_TIGHT" /\ first
                THEN First_Arg_Flags(cells, i + 1, FALSE)
             ELSE IF class \in {"PARAM_CLASS_HARD_QUOTE", "PARAM_CLASS_SOFT_QUOTE"}
                     /\ first
                THEN {"FUNC_FLAG_QUOTES_FIRST_ARG"}
                        \cup First_Arg_Flags(cells, i + 1, FALSE)
             ELSE First_Arg_Flags(cells, i + 1, first_arg)

Cached_Flags(p) ==
    (IF \E i \in 2..Len(p.cells) :
           /\ VAL_PARAM_CLASS(p.cells[i]) = "PARAM_CLASS_RETURN"
           /\ p.cells[i].bits = {}
     THEN {"FUNC_FLAG_INVISIBLE"} ELSE {})
       \cup First_Arg_Flags(p.cells, 2, TRUE)

\* a function value: the paramlist, the body holder's dispatcher, body and
\* exemplar, and the binding of the value
Make_Function_KeepsOwnFacade(p, dispatcher, opt_facade, opt_exemplar, ndebug) ==
    [asserted |-> FALSE,
     paramlist |-> [p EXCEPT !.cells[1].flags = @ \cup Cached_Flags(p)],
     facade |-> [node |-> p.facade, len |-> p.len, cells |-> p.cells, specialized |-> {}],
     facade_len |-> p.len,
     dispatcher |-> dispatcher,
     body |-> <<>>,
     exemplar |-> opt_exemplar,
     binding |-> UNBOUND]

Make_Function(p, dispatcher, opt_facade, opt_exemplar, ndebug) ==
    LET facade == IF opt_facade.node = NULL
                    THEN [node |-> p.facade, len |-> p.len, cells |-> p.cells,
                          specialized |-> {}]
                    ELSE opt_facade
        ok == /\ Make_Function_Asserts(p)
              /\ opt_facade.node = NULL => p.facade = p.node
              /\ ~opt_exemplar.null => Len(opt_exemplar.vars) = facade.len - 1
    IN  [asserted |-> ~ok /\ ~ndebug,
         paramlist |-> [p EXCEPT !.facade = facade.node,
                                 !.cells[1].flags = @ \cup Cached_Flags(p)],
         facade |-> facade,
         facade_len |-> facade.len,
         dispatcher |-> dispatcher,
         body |-> <<>>,
         exemplar |-> opt_exemplar,
         binding |-> UNBOUND]

GET_VAL_FLAG(fun, flag) == flag \in fun.paramlist.cells[1].flags

FUNC_NUM_PARAMS(fun) == fun.paramlist.len - 1

FUNC_PARAM(fun, n) == fun.paramlist.cells[n + 1]

\* the variant that gives every function with an empty body the Noop or the
\* Commenter, whatever its return typeset
Pick_Dispatcher_EmptyIsNoop(fun, code_empty) ==
    IF code_empty
    THEN IF GET_VAL_FLAG(fun, "FUNC_FLAG_INVISIBLE") THEN "Commenter_Dispatcher"
         ELSE "Noop_Dispatcher"
    ELSE IF GET_VAL_FLAG(fun, "FUNC_FLAG_INVISIBLE") THEN "Elider_Dispatcher"
    ELSE IF GET_VAL_FLAG(fun, "FUNC_FLAG_RETURN") THEN "Returner_Dispatcher"
    ELSE IF GET_VAL_FLAG(fun, "FUNC_FLAG_LEAVE") THEN "Voider_Dispatcher"
    ELSE "Unchecked_Dispatcher"

\* the dispatcher Make_Interpreted_Function_May_Fail picks for the function
Pick_Dispatcher(fun, code_empty) ==
    IF code_empty
    THEN IF GET_VAL_FLAG(fun, "FUNC_FLAG_INVISIBLE") THEN "Commenter_Dispatcher"
         ELSE IF /\ GET_VAL_FLAG(fun, "FUNC_FLAG_RETURN")
                 /\ ~TYPE_CHECK(FUNC_PARAM(fun, FUNC_NUM_PARAMS(fun)), "MAX_VOID")
         THEN "Returner_Dispatcher"
         ELSE "Noop_Dispatcher"
    ELSE IF GET_VAL_FLAG(fun, "FUNC_FLAG_INVISIBLE") THEN "Elider_Dispatcher"
    ELSE IF GET_VAL_FLAG(fun, "FUNC_FLAG_RETURN") THEN "Returner_Dispatcher"
    ELSE IF GET_VAL_FLAG(fun, "FUNC_FLAG_LEAVE") THEN "Voider_Dispatcher"
    ELSE "Unchecked_Dispatcher"

\* the spec is one that the paramlist builder accepts
Make_Interpreted_Function_May_Fail(spec, code_empty, mkf_flags) ==
    LET p == Paramlist_Of(spec, mkf_flags, TRUE).paramlist
        fun == Make_Function(p, "Noop_Dispatcher", No_Facade, No_Exemplar, TRUE)
    IN  [fun EXCEPT !.dispatcher = Pick_Dispatcher(fun, code_empty)]

(***************************************************************************)
(* Steps of the paramlist builder                                          *)
(***************************************************************************)
Make_Paramlist_Managed_May_Fail ==
    /\ mk.pc = "call"
    /\ mk' = Enter_Make_Paramlist(mk)
    /\ UNCHANGED paramlist

Scan_Spec ==
    /\ mk.pc = "scan"
    /\ mk.value <= Len(mk.spec)
    /\ mk' = Scan_Item(mk)
    /\ UNCHANGED paramlist

End_Of_Spec ==
    /\ mk.pc = "scan"
    /\ mk.value > Len(mk.spec)
    /\ mk' = Add_Definitionals(mk)
    /\ UNCHANGED paramlist

Copy_To_Paramlist ==
    /\ mk.pc = "copy"
    /\ LET r == Build_Paramlist(mk)
       IN  /\ mk' = r.m
           /\ paramlist' = r.paramlist

\* Make_Interpreted_Function_May_Fail after the paramlist is built: the call
\* of Make_Function, which caches the flags in the archetype, and the choice
\* of the dispatcher for an empty or a non-empty body
Call_Make_Function ==
    /\ mk.pc = "returned"
    /\ \E code_empty \in BOOLEAN :
          LET fun == Make_Function(paramlist, "Noop_Dispatcher", No_Facade,
                                   No_Exemplar, mk.ndebug)
          IN  IF fun.asserted
                 THEN /\ mk' = [mk EXCEPT !.pc = "asserted"]
                      /\ UNCHANGED paramlist
                 ELSE /\ mk' = [mk EXCEPT !.pc = "made",
                                          !.code_empty = code_empty,
                                          !.dispatcher = Pick_Dispatcher(fun, code_empty)]
                      /\ paramlist' = fun.paramlist

Param_Quiet ==
    /\ mk = Unused
    /\ paramlist = Unused

Startup_Param ==
    /\ mk \in { Call(spec, flags, ndebug) :
                   spec \in Specs, flags \in FlagSets, ndebug \in BOOLEAN }
    /\ paramlist = No_Paramlist

(***************************************************************************)
(* Dispatchers (src/core/c-function.c)                                     *)
(*                                                                         *)
(* frm is the frame of one function call.  A value is its kind and the     *)
(* names of the functions whose bodies produced it, oldest first.  The     *)
(* body of a composite function names its component functions.             *)
(***************************************************************************)
Some_Context == 1

Leaf(name, spec, code_empty, mkf_flags) ==
    [Make_Interpreted_Function_May_Fail(spec, code_empty, mkf_flags)
        EXCEPT !.body = <<name>>]

\* a function whose body holds other functions; its paramlist is the one
\* of its first component
Composite(dispatcher, first, body) ==
    [first EXCEPT !.dispatcher = dispatcher, !.body = body]

LeafFunctions ==
    [unchecked |-> Leaf("unchecked", <<Item("WORD", "x")>>, FALSE,
                        {"MKF_KEYWORDS"}),
     voider    |-> Leaf("voider", <<Item("WORD", "x")>>, FALSE,
                        {"MKF_KEYWORDS", "MKF_LEAVE"}),
     returner  |-> Leaf("returner",
                        <<Item("SET_WORD", "return"), Item("BLOCK", "integer!"),
                          Item("WORD", "x")>>, FALSE,
                        {"MKF_KEYWORDS", "MKF_RETURN"}),
     func      |-> Leaf("func", <<Item("WORD", "x")>>, FALSE,
                        {"MKF_KEYWORDS", "MKF_RETURN"}),
     elider    |-> Leaf("elider",
                        <<Item("SET_WORD", "return"), Item("BLOCK", ""),
                          Item("WORD", "x")>>, FALSE,
                        {"MKF_KEYWORDS", "MKF_RETURN"})]

\* the functions a pipeline is drawn from
PipelineNames == {"unchecked", "voider", "returner", "inner_chain"}

Pipelines == UNION { [1..n -> PipelineNames] : n \in 1..MaxPipeline }

Chain(first, pipeline) ==
    Composite("Chainer_Dispatcher", first, pipeline)

\* the functions of the program, made from the leaf functions; a body names
\* the functions it holds
Functions(leaf) ==
    [unchecked |-> leaf.unchecked,
     voider |-> leaf.voider,
     returner |-> [leaf.returner EXCEPT !.binding = Some_Context],
     func |-> leaf.func,
     elider |-> leaf.elider,
     adapter |-> Composite("Adapter_Dispatcher", leaf.returner,
                           <<"prelude", "returner">>),
     encloser |-> Composite("Encloser_Dispatcher", leaf.unchecked,
                            <<"unchecked", "func">>),
     hijacked |-> Composite("Hijacker_Dispatcher", leaf.unchecked,
                            <<"voider">>),
     inner_chain |-> Chain(leaf.unchecked, <<"unchecked", "func">>)]

Value(kind, trace) == [kind |-> kind, trace |-> trace, thrown |-> FALSE]

END_Value == Value("END", <<>>)

Void_Value(trace) == Value("MAX_VOID", trace)

\* what an evaluation of code gives: whether it throws, and the kind of
\* the value it leaves
Outcomes == [thrown : BOOLEAN, kind : Kinds]

No_Eval == [ran |-> FALSE, thrown |-> FALSE, code |-> ""]

\* a frame before its call: functions holds the functions that exist
No_Frame(functions) ==
    [pc |-> "none", functions |-> functions, original |-> functions.unchecked,
     phase |-> functions.unchecked, binding |-> UNBOUND,
     arg |-> END_Value, out |-> END_Value, r |-> "", error |-> "",
     ds |-> <<>>, eval |-> No_Eval, checked |-> FALSE, ran |-> <<>>]

\* Do_At_Throws and the other calls that evaluate code into a cell: the
\* value made by the code named code, or the value it throws
Do_At_Throws(fr, code, e) ==
    [kind |-> e.kind, trace |-> Append(fr.arg.trace, code), thrown |-> e.thrown]

Evaluated(fr, code, e) ==
    [fr EXCEPT !.eval = [ran |-> TRUE, thrown |-> e.thrown, code |-> code],
               !.pc = "result", !.checked = FALSE,
               !.ran = Append(@, fr.phase.dispatcher)]

Unchecked_Dispatcher(fr, e) ==
    LET body == fr.phase.body[1]
    IN  [Evaluated(fr, body, e) EXCEPT
           !.out = Do_At_Throws(fr, body, e),
           !.r = IF e.thrown THEN "R_OUT_IS_THROWN" ELSE "R_OUT"]

Voider_Dispatcher(fr, e) ==
    LET body == fr.phase.body[1]
    IN  [Evaluated(fr, body, e) EXCEPT
           !.out = Do_At_Throws(fr, body, e),
           !.r = IF e.thrown THEN "R_OUT_IS_THROWN" ELSE "R_VOID"]

\* the variant that checks against the first parameter
Returner_Dispatcher_FirstParam(fr, e) ==
    LET body == fr.phase.body[1]
        out == Do_At_Throws(fr, body, e)
        typeset == FUNC_PARAM(fr.phase, 1)
        f1 == [Evaluated(fr, body, e) EXCEPT !.out = out]
    IN  IF e.thrown THEN [f1 EXCEPT !.r = "R_OUT_IS_THROWN"]
        ELSE IF ~TYPE_CHECK(typeset, out.kind)
        THEN [f1 EXCEPT !.checked = TRUE, !.pc = "failed",
                        !.error = "Error_Bad_Return_Type"]
        ELSE [f1 EXCEPT !.checked = TRUE, !.r = "R_OUT"]

Returner_Dispatcher(fr, e) ==
    LET body == fr.phase.body[1]
        out == Do_At_Throws(fr, body, e)
        typeset == FUNC_PARAM(fr.phase, FUNC_NUM_PARAMS(fr.phase))
        f1 == [Evaluated(fr, body, e) EXCEPT !.out = out]
    IN  IF e.thrown THEN [f1 EXCEPT !.r = "R_OUT_IS_THROWN"]
        ELSE IF VAL_PARAM_SYM(typeset) # "return"
        THEN [f1 EXCEPT !.pc = "asserted"]
        ELSE IF ~TYPE_CHECK(typeset, out.kind)
        THEN [f1 EXCEPT !.checked = TRUE, !.pc = "failed",
                        !.error = "Error_Bad_Return_Type"]
        ELSE [f1 EXCEPT !.checked = TRUE, !.r = "R_OUT"]

Elider_Dispatcher(fr, e) ==
    LET body == fr.phase.body[1]
        dummy == Do_At_Throws(fr, body, e)
    IN  IF e.thrown
        THEN [Evaluated(fr, body, e) EXCEPT !.out = dummy, !.r = "R_OUT_IS_THROWN"]
        ELSE [Evaluated(fr, body, e) EXCEPT !.r = "R_INVISIBLE"]

Hijacker_Dispatcher(fr, e) ==
    LET hijacker == fr.phase.body[1]
    IN  [Evaluated(fr, hijacker, e) EXCEPT
           !.out = Do_At_Throws(fr, hijacker, e),
           !.r = IF e.thrown THEN "R_OUT_IS_THROWN" ELSE "R_OUT"]

\* the variant that goes on to the adaptee after a throw
Adapter_Dispatcher_IgnoresThrow(fr, e) ==
    LET prelude == fr.phase.body[1]
        adaptee == fr.functions[fr.phase.body[2]]
    IN  [Evaluated(fr, prelude, e) EXCEPT
           !.out = Do_At_Throws(fr, prelude, e),
           !.phase = adaptee,
           !.binding = adaptee.binding,
           !.r = "R_REDO_CHECKED"]

Adapter_Dispatcher(fr, e) ==
    LET prelude == fr.phase.body[1]
        adaptee == fr.functions[fr.phase.body[2]]
        f1 == [Evaluated(fr, prelude, e) EXCEPT
                 !.out = Do_At_Throws(fr, prelude, e)]
    IN  IF e.thrown THEN [f1 EXCEPT !.r = "R_OUT_IS_THROWN"]
        ELSE [f1 EXCEPT !.phase = adaptee,
                        !.binding = adaptee.binding,
                        !.r = "R_REDO_CHECKED"]

Encloser_Dispatcher(fr, e) ==
    LET outer == fr.phase.body[2]
    IN  [Evaluated(fr, outer, e) EXCEPT
           !.out = Do_At_Throws(fr, outer, e),
           !.r = IF e.thrown THEN "R_OUT_IS_THROWN" ELSE "R_OUT"]

\* the variant that pushes from the second function up to the last
RECURSIVE Push_Pipeline_Forward(_, _, _)
Push_Pipeline_Forward(ds, pipeline, value) ==
    IF value = 1 THEN ds
    ELSE Append(Push_Pipeline_Forward(ds, pipeline, value - 1), pipeline[value])

\* the pushes of the pipeline, from its last function down to its second
RECURSIVE Push_Pipeline(_, _, _)
Push_Pipeline(ds, pipeline, value) ==
    IF value = 1 THEN ds
    ELSE Push_Pipeline(Append(ds, pipeline[value]), pipeline, value - 1)

Chainer_Dispatcher(fr) ==
    LET pipeline == fr.phase.body
        first == fr.functions[pipeline[1]]
    IN  [fr EXCEPT !.ds = Push_Pipeline(fr.ds, pipeline, Len(pipeline)),
                   !.phase = first,
                   !.binding = first.binding,
                   !.eval = No_Eval,
                   !.pc = "result",
                   !.ran = Append(@, "Chainer_Dispatcher"),
                   !.r = "R_REDO_UNCHECKED"]

(***************************************************************************)
(* Steps of a function call                                                *)
(***************************************************************************)
Dispatch(dispatcher) ==
    /\ frm.pc = "dispatch"
    /\ frm.phase.dispatcher = dispatcher

Run_Unchecked == Dispatch("Unchecked_Dispatcher") /\ \E e \in Outcomes : frm' = Unchecked_Dispatcher(frm, e)

Run_Voider == Dispatch("Voider_Dispatcher") /\ \E e \in Outcomes : frm' = Voider_Dispatcher(frm, e)

Run_Returner == Dispatch("Returner_Dispatcher") /\ \E e \in Outcomes : frm' = Returner_Dispatcher(frm, e)

Run_Elider == Dispatch("Elider_Dispatcher") /\ \E e \in Outcomes : frm' = Elider_Dispatcher(frm, e)

Run_Hijacker == Dispatch("Hijacker_Dispatcher") /\ \E e \in Outcomes : frm' = Hijacker_Dispatcher(frm, e)

Run_Adapter == Dispatch("Adapter_Dispatcher") /\ \E e \in Outcomes : frm' = Adapter_Dispatcher(frm, e)

Run_Encloser == Dispatch("Encloser_Dispatcher") /\ \E e \in Outcomes : frm' = Encloser_Dispatcher(frm, e)

Run_Chainer == Dispatch("Chainer_Dispatcher") /\ frm' = Chainer_Dispatcher(frm)

\* the evaluator runs the frame again with the phase the dispatcher set
Redo ==
    /\ frm.pc = "result"
    /\ frm.r \in {"R_REDO_CHECKED", "R_REDO_UNCHECKED"}
    /\ frm' = [frm EXCEPT !.pc = "dispatch", !.r = "", !.eval = No_Eval]

\* the cell the evaluator has for the result of the dispatcher
Result_Of(fr) ==
    IF fr.r = "R_VOID" THEN Void_Value(fr.out.trace)
    ELSE fr.out

\* the evaluator pops the next function of a chain and calls it on the result
Apply_Chained ==
    /\ frm.pc = "result"
    /\ frm.r \in {"R_OUT", "R_VOID", "R_INVISIBLE"}
    /\ frm.ds # <<>>
    /\ frm' = [frm EXCEPT !.pc = "dispatch", !.r = "", !.eval = No_Eval,
                      !.phase = frm.functions[frm.ds[Len(frm.ds)]],
                      !.binding = frm.functions[frm.ds[Len(frm.ds)]].binding,
                      !.arg = Result_Of(frm), !.out = END_Value,
                      !.ds = SubSeq(frm.ds, 1, Len(frm.ds) - 1)]

\* the call ends: with its result, or with the throw that drops the chain
End_Call ==
    /\ frm.pc = "result"
    /\ \/ frm.r = "R_OUT_IS_THROWN"
       \/ frm.r \in {"R_OUT", "R_VOID", "R_INVISIBLE"} /\ frm.ds = <<>>
    /\ frm' = [frm EXCEPT !.pc = "done", !.out = Result_Of(frm), !.ds = <<>>]

Disp_Quiet == frm = Unused

Startup_Frame ==
    \E leaf \in {LeafFunctions} :
       \E functions \in {Functions(leaf)} :
          \E fun \in {functions[n] : n \in DOMAIN functions}
                         \cup {Chain(leaf.unchecked, p) : p \in Pipelines} :
             \E kind \in Kinds \ {"FUNCTION"} :
                frm = [No_Frame(functions) EXCEPT
                         !.pc = "dispatch", !.original = fun, !.phase = fun,
                         !.binding = fun.binding,
                         !.arg = Value(kind, <<>>)]

(***************************************************************************)
(* Quoted values (t-quoted.c)                                              *)
(*                                                                         *)
(* A cell's kind byte holds the kind plus REB_64 for each of up to three   *)
(* quote levels; a deeper quoting is a REB_QUOTED cell whose payload holds *)
(* the depth and the one unquoted cell of a singular array.  The cell      *)
(* level routines (Quotify, Unquotify, VAL_NUM_QUOTES) are not under src/  *)
(* and follow the specification's data model; the natives are t-quoted.c.  *)
(***************************************************************************)
REB_64 == 64

REB_QUOTED == 3

\* the kinds of the unquoted values: an integer, a word, the null
Plain_Kinds == {1, 2, 0}

\* the payloads told apart
Payloads == {0, 1}

\* the width of the kind byte
Byte(n) == n % 256

\* an unquoted cell
Plain_Cell(kind, data) ==
    [kind_byte |-> kind, data |-> data, quoted_depth |-> 0, quoted_kind |-> 0]

KIND_BYTE(v) == v.kind_byte

\* the number of quote levels of a cell
VAL_NUM_QUOTES(v) ==
    IF KIND_BYTE(v) = REB_QUOTED THEN v.quoted_depth ELSE KIND_BYTE(v) \div REB_64

\* the variant that keeps every depth in the kind byte
Quotify_InPlace(v, depth) ==
    [v EXCEPT !.kind_byte = Byte(@ + REB_64 * depth)]

\* add depth quote levels to a cell
Quotify(v, depth) ==
    IF KIND_BYTE(v) = REB_QUOTED
      THEN [v EXCEPT !.quoted_depth = @ + depth]
      ELSE LET kind == KIND_BYTE(v) % REB_64
               total == KIND_BYTE(v) \div REB_64 + depth
           IN  IF total > 3
                 THEN [kind_byte |-> REB_QUOTED, data |-> v.data,
                       quoted_depth |-> total, quoted_kind |-> kind]
                 ELSE [v EXCEPT !.kind_byte = Byte(kind + REB_64 * total)]

\* remove unquotes quote levels from a cell that has that many
Unquotify(v, unquotes) ==
    IF unquotes = 0
      THEN v
      ELSE IF KIND_BYTE(v) # REB_QUOTED
        THEN [v EXCEPT !.kind_byte = Byte(@ - REB_64 * unquotes)]
        ELSE LET total == v.quoted_depth - unquotes
             IN  IF total > 3
                   THEN [v EXCEPT !.quoted_depth = total]
                   ELSE [kind_byte |-> Byte(v.quoted_kind + REB_64 * total),
                         data |-> v.data, quoted_depth |-> 0, quoted_kind |-> 0]

VAL_TYPE(v) == IF KIND_BYTE(v) >= REB_64 THEN REB_QUOTED ELSE KIND_BYTE(v)

\* the counts the /depth refinement of UNEVAL is given
Counts == (0 - 1)..MaxQuotes

No_Native == [name |-> "", arg |-> Plain_Cell(0, 0), depth |-> 0, error |-> ""]

\* a native was called on arg and either failed or left its result in D_OUT
Native_Result(name, arg, depth, out) ==
    /\ quo' = [out |-> out,
               native |-> [name |-> name, arg |-> arg, depth |-> depth, error |-> ""]]

Native_Fail(name, arg, depth, error) ==
    /\ quo' = [quo EXCEPT !.native = [name |-> name, arg |-> arg, depth |-> depth,
                                      error |-> error]]

\* MAKE QUOTED! of a value
MAKE_Quoted(arg) ==
    /\ VAL_NUM_QUOTES(arg) + 1 <= MaxQuotes
    /\ Native_Result("make", arg, 1, Quotify(arg, 1))

\* the UNEVAL native, with or without its /depth refinement
uneval(optional, ref_depth, count) ==
    LET depth == IF ref_depth THEN count ELSE 1
    IN  /\ VAL_NUM_QUOTES(optional) + depth <= MaxQuotes
        /\ IF depth < 0
             THEN Native_Fail("uneval", optional, depth, "Error_Invalid")
             ELSE Native_Result("uneval", optional, depth, Quotify(optional, depth))

\* the QUOTED? native
quoted_q(optional) ==
    Native_Result("quoted?", optional, 0,
                  Plain_Cell(1, IF VAL_TYPE(optional) = REB_QUOTED THEN 1 ELSE 0))

\* the DEQUOTE native
dequote(optional) ==
    Native_Result("dequote", optional, 0, Unquotify(optional, VAL_NUM_QUOTES(optional)))

\* the values the natives are called with: an unquoted value, or the
\* result of the last call
Quote_Args == {Plain_Cell(kind, data) : kind \in Plain_Kinds, data \in Payloads}
                 \cup {quo.out}

Quote_Quiet == quo = Unused

Startup_Quote == quo = [out |-> Plain_Cell(0, 0), native |-> No_Native]

(***************************************************************************)
(* Frames for functions (c-function.c, Make_Frame_For_Function)            *)
(*                                                                         *)
(* The callers of Make_Function that supply a facade and an exemplar (the  *)
(* specializations) are not under src/: following the specification, a     *)
(* facade is the paramlist's cells with some refinements marked            *)
(* specialized, and an exemplar has one variable for each parameter of the *)
(* facade.                                                                 *)
(***************************************************************************)
Facade_Node == 2

\* the variables of an exemplar
Void_Cell == [t |-> "MAX_VOID", logic |-> FALSE]

Logic_Cell(b) == [t |-> "LOGIC", logic |-> b]

Refinement_Cell == [t |-> "REFINEMENT", logic |-> FALSE]

Integer_Cell == [t |-> "INTEGER", logic |-> FALSE]

Exemplar_Cells ==
    {Void_Cell, Logic_Cell(TRUE), Logic_Cell(FALSE), Refinement_Cell, Integer_Cell}

IS_LOGIC(v) == v.t = "LOGIC"

IS_VOID(v) == v.t = "MAX_VOID"

IS_REFINEMENT(v) == v.t = "REFINEMENT"

\* the specs of the functions frames are made for
Frame_Items == {Item("WORD", "x"), Item("REFINEMENT", "r"), Item("REFINEMENT", "s")}

Frame_Specs ==
    {spec \in UNION { [1..n -> Frame_Items] : n \in 0..MaxFrameParams } :
        \A i, j \in 1..Len(spec) : i # j => spec[i] # spec[j]}

\* the refinements among the parameters of a paramlist, by index
Refinements_Of(p) ==
    {i \in 1..(p.len - 1) : VAL_PARAM_CLASS(p.cells[i + 1]) = "PARAM_CLASS_REFINEMENT"}

\* the facades a specialization gives for a paramlist
Facades_Of(p) ==
    {[node |-> Facade_Node, len |-> p.len, cells |-> p.cells, specialized |-> marks] :
        marks \in SUBSET Refinements_Of(p)}

\* the exemplars a specialization gives for a facade
Exemplars_Of(facade) ==
    {[null |-> FALSE, vars |-> slots] : slots \in [1..(facade.len - 1) -> Exemplar_Cells]}

FUNC_FACADE_NUM_PARAMS(fun) == fun.facade.len - 1

FUNC_FACADE_HEAD(fun) == SubSeq(fun.facade.cells, 2, fun.facade.len)

IS_REFINEMENT_SPECIALIZED(fun, n) == n \in fun.facade.specialized

No_Varlist ==
    [null |-> TRUE, len |-> 0, phase |-> NULL, binding |-> UNBOUND,
     keylist |-> NULL, vars |-> <<>>]

\* the variant that moves every exemplar slot into the frame
Frame_Arg_Verbatim(fun, n, ndebug) ==
    [asserted |-> FALSE,
     arg |-> IF fun.exemplar.null THEN Void_Cell ELSE fun.exemplar.vars[n]]

\* the argument slot of the frame for the n-th parameter of the facade
Frame_Arg(fun, n, ndebug) ==
    LET param == FUNC_FACADE_HEAD(fun)[n]
        special == fun.exemplar.vars[n]
    IN  IF fun.exemplar.null
          THEN [asserted |-> FALSE, arg |-> Void_Cell]
        ELSE IF VAL_PARAM_CLASS(param) # "PARAM_CLASS_REFINEMENT"
          THEN [asserted |-> FALSE, arg |-> special]
        ELSE IF IS_LOGIC(special)
          THEN [asserted |-> FALSE, arg |-> Logic_Cell(special.logic)]
        ELSE [asserted |-> ~ndebug /\ ~(IS_REFINEMENT(special) \/ IS_VOID(special)),
              arg |-> IF IS_REFINEMENT_SPECIALIZED(fun, n) THEN Logic_Cell(TRUE)
                      ELSE Void_Cell]

\* the varlist of a frame for the function value
Make_Frame_For_Function(value, ndebug) ==
    LET facade_len == FUNC_FACADE_NUM_PARAMS(value) + 1
        args == [n \in 1..(facade_len - 1) |-> Frame_Arg(value, n, ndebug)]
    IN  [asserted |-> \E n \in 1..(facade_len - 1) : args[n].asserted,
         varlist |-> [null |-> FALSE,
                      len |-> facade_len,
                      phase |-> value.paramlist.node,
                      binding |-> value.binding,
                      keylist |-> value.facade.node,
                      vars |-> [n \in 1..(facade_len - 1) |-> args[n].arg]]]

No_Function ==
    Make_Function(Paramlist_Of(<<>>, {}, TRUE).paramlist, "Noop_Dispatcher",
                  No_Facade, No_Exemplar, TRUE)

No_Action ==
    [pc |-> "none", ndebug |-> TRUE, opt_facade |-> No_Facade, fun |-> No_Function,
     varlist |-> No_Varlist]

\* Make_Function is called with a paramlist of the builder, with or without a
\* facade and an exemplar
Make_Action(spec, with_facade, with_exemplar, ndebug, binding) ==
    LET p == Paramlist_Of(spec, {}, ndebug).paramlist
    IN  /\ act.pc = "none"
        /\ \E opt_facade \in (IF with_facade THEN Facades_Of(p) ELSE {No_Facade}) :
             LET facade == IF with_facade THEN opt_facade
                           ELSE [node |-> p.node, len |-> p.len, cells |-> p.cells,
                                 specialized |-> {}]
             IN  \E opt_exemplar \in (IF with_exemplar THEN Exemplars_Of(facade)
                                       ELSE {No_Exemplar}) :
                    LET fun == Make_Function(p, "Noop_Dispatcher", opt_facade,
                                             opt_exemplar, ndebug)
                    IN  act' = [pc |-> IF fun.asserted THEN "asserted" ELSE "made",
                                ndebug |-> ndebug,
                                opt_facade |-> opt_facade,
                                fun |-> [fun EXCEPT !.binding = binding],
                                varlist |-> No_Varlist]

\* a frame is made for the function
Make_Frame ==
    /\ act.pc = "made"
    /\ LET made == Make_Frame_For_Function(act.fun, act.ndebug)
       IN  act' = [act EXCEPT !.pc = IF made.asserted THEN "asserted" ELSE "framed",
                              !.varlist = made.varlist]

Frame_Quiet == act = Unused

Startup_Action == act = No_Action

(***************************************************************************)
(* Specifications                                                          *)
(***************************************************************************)
Intern == (\E utf8 \in Spellings : Intern_UTF8_Managed(utf8)) /\ UNCHANGED <<gcVars, paramVars, dispVars, quoteVars, frameVars>>

Kill == (\E intern \in SymNodes : GC_Kill_Interning(intern)) /\ UNCHANGED <<gcVars, paramVars, dispVars, quoteVars, frameVars>>

Init == Startup_Interning /\ GC_Quiet /\ Param_Quiet /\ Disp_Quiet /\ Quote_Quiet /\ Frame_Quiet

Next == Intern \/ Kill

Spec == Init /\ [][Next]_vars

Recycle ==
    /\ gc.pc = "idle"
    /\ \E shutdown \in BOOLEAN : Recycle_Core(shutdown, NULL)
    /\ UNCHANGED <<internVars, paramVars, dispVars, quoteVars, frameVars>>

Mark_Roots ==
    /\ \/ Do_Mark_Root_Series
       \/ Do_Mark_Natives
       \/ Do_Mark_Symbol_Series
       \/ Do_Mark_Data_Stack
       \/ Do_Mark_Guarded_Nodes
       \/ Do_Mark_Frame_Stack_Deep
       \/ Do_Mark_Devices_Deep
    /\ UNCHANGED <<internVars, paramVars, dispVars, quoteVars, frameVars>>

Propagate == Propagate_All_GC_Marks /\ UNCHANGED <<internVars, paramVars, dispVars, quoteVars, frameVars>>

Sweep == Do_Sweep_Series /\ UNCHANGED <<internVars, paramVars, dispVars, quoteVars, frameVars>>

Guard ==
    /\ \E node \in GCNodes : Push_Guard_Node(node)
    /\ UNCHANGED <<internVars, paramVars, dispVars, quoteVars, frameVars>>

Handles ==
    /\ \/ \E v \in {END_Cell, Cell("BLOCK", BlockY, NULL), Cell("TEXT", Text, NULL)} :
              Alloc_Value(v)
       \/ Free_Value
    /\ UNCHANGED <<internVars, paramVars, dispVars, quoteVars, frameVars>>

Unwind ==
    /\ DS_DROP \/ (\E failed \in BOOLEAN : Drop_Frame(failed))
    /\ UNCHANGED <<internVars, paramVars, dispVars, quoteVars, frameVars>>

InitGC == Startup_Interning /\ Startup_GC /\ Param_Quiet /\ Disp_Quiet /\ Quote_Quiet /\ Frame_Quiet

NextGC == Recycle \/ Mark_Roots \/ Propagate \/ Sweep \/ Guard \/ Handles \/ Unwind

SpecGC == InitGC /\ [][NextGC]_vars

Build ==
    /\ \/ Make_Paramlist_Managed_May_Fail
       \/ Scan_Spec
       \/ End_Of_Spec
       \/ Copy_To_Paramlist
    /\ UNCHANGED <<internVars, gcVars, dispVars, quoteVars, frameVars>>

Use == Call_Make_Function /\ UNCHANGED <<internVars, gcVars, dispVars, quoteVars, frameVars>>

InitParam == Startup_Interning /\ GC_Quiet /\ Startup_Param /\ Disp_Quiet /\ Quote_Quiet /\ Frame_Quiet

NextParam == Build \/ Use

SpecParam == InitParam /\ [][NextParam]_vars

\* specs that exercise the whole dialect: every form of word, the top-level
\* tags and the type blocks
DialectItems ==
    { Item("WORD", "x"), Item("SET_WORD", "return"), Item("REFINEMENT", "r"),
      Item("GET_WORD", "g"), Item("LIT_WORD", "l"), Item("ISSUE", "i"),
      Item("TAG", "local"), Item("TAG", "with"),
      Item("TAG", "custom"), Item("STRING", "doc"),
      Item("BLOCK", "integer!"), Item("BLOCK", "<opt>"),
      Item("BLOCK", "<skip>"), Item("BLOCK", "<custom>") }

DialectSpecs == UNION { [1..n -> DialectItems] : n \in 0..MaxSpecLen }

DialectFlags == { {"MKF_KEYWORDS"}, {"MKF_KEYWORDS", "MKF_RETURN"}, {"MKF_RETURN"} }

Startup_Dialect ==
    /\ mk \in { Call(spec, flags, ndebug) :
                   spec \in DialectSpecs, flags \in DialectFlags,
                   ndebug \in BOOLEAN }
    /\ paramlist = No_Paramlist

InitDialect == Startup_Interning /\ GC_Quiet /\ Startup_Dialect /\ Disp_Quiet /\ Quote_Quiet /\ Frame_Quiet

SpecDialect == InitDialect /\ [][NextParam]_vars

(***************************************************************************)
(* Make_Function on paramlists that other generators hand it: parameters   *)
(* of every class, hidden by specialization or not                         *)
(***************************************************************************)
ParamClasses ==
    { "PARAM_CLASS_LOCAL", "PARAM_CLASS_RETURN", "PARAM_CLASS_LEAVE",
      "PARAM_CLASS_REFINEMENT", "PARAM_CLASS_NORMAL", "PARAM_CLASS_TIGHT",
      "PARAM_CLASS_HARD_QUOTE", "PARAM_CLASS_SOFT_QUOTE" }

\* a parameter of the class; RETURN and LEAVE have the spelling the asserts
\* of Make_Function ask for
Param_Cell(class, hidden) ==
    [Init_Typeset(Default_Bits,
                  IF class = "PARAM_CLASS_RETURN" THEN "return"
                  ELSE IF class = "PARAM_CLASS_LEAVE" THEN "leave"
                  ELSE "x",
                  class)
       EXCEPT !.hidden = hidden]

ParamCells == { Param_Cell(class, hidden) : class \in ParamClasses, hidden \in BOOLEAN }

Managed_Paramlist(params) ==
    [node |-> Paramlist_Node, len |-> Len(params) + 1, facade |-> Paramlist_Node,
     managed |-> TRUE, cells |-> <<Archetype(No_Call, Paramlist_Node)>> \o params,
     meta |-> No_Meta]

Startup_Flags ==
    /\ mk \in { [No_Call EXCEPT !.pc = "returned", !.ndebug = ndebug] :
                   ndebug \in BOOLEAN }
    /\ paramlist \in { Managed_Paramlist(params) :
                          params \in UNION { [1..n -> ParamCells] : n \in 0..MaxParams } }

InitFlags == Startup_Interning /\ GC_Quiet /\ Startup_Flags /\ Disp_Quiet /\ Quote_Quiet /\ Frame_Quiet

NextFlags == Use

SpecFlags == InitFlags /\ [][NextFlags]_vars

Run ==
    /\ \/ Run_Unchecked
       \/ Run_Voider
       \/ Run_Returner
       \/ Run_Elider
       \/ Run_Hijacker
       \/ Run_Adapter
       \/ Run_Encloser
       \/ Run_Chainer
    /\ UNCHANGED <<internVars, gcVars, paramVars, quoteVars, frameVars>>

Do_Core ==
    /\ Redo \/ Apply_Chained \/ End_Call
    /\ UNCHANGED <<internVars, gcVars, paramVars, quoteVars, frameVars>>

InitDispatch == Startup_Interning /\ GC_Quiet /\ Param_Quiet /\ Startup_Frame /\ Quote_Quiet /\ Frame_Quiet

NextDispatch == Run \/ Do_Core

SpecDispatch == InitDispatch /\ [][NextDispatch]_vars

Quote ==
    /\ \E optional \in Quote_Args :
          \/ MAKE_Quoted(optional)
          \/ \E ref_depth \in BOOLEAN, count \in Counts : uneval(optional, ref_depth, count)
          \/ quoted_q(optional)
          \/ dequote(optional)
    /\ UNCHANGED <<internVars, gcVars, paramVars, dispVars, frameVars>>

InitQuote == Startup_Interning /\ GC_Quiet /\ Param_Quiet /\ Disp_Quiet /\ Startup_Quote /\ Frame_Quiet

NextQuote == Quote

SpecQuote == InitQuote /\ [][NextQuote]_vars

(***************************************************************************)
(* The generic handler of TYPESET! (t-typeset.c, REBTYPE(Typeset))         *)
(*                                                                         *)
(* A typeset's 64 bits are the set of the kinds whose bit is set, so that  *)
(* |, & and ^ are union, intersection and symmetric difference, and ~ is   *)
(* the complement in the set of all kinds.                                 *)
(***************************************************************************)
\* the kinds that have a bit in the typesets of the handler
Typeset_Kinds == {"INTEGER", "BLOCK", "DATATYPE", "TYPESET"}

Typeset_Value(bits) == [t |-> "TYPESET", bits |-> bits, type_kind |-> ""]

Datatype_Value(kind) == [t |-> "DATATYPE", bits |-> {}, type_kind |-> kind]

Integer_Value == [t |-> "INTEGER", bits |-> {}, type_kind |-> ""]

\* a handler called without a second argument
No_Arg == [t |-> "NULL", bits |-> {}, type_kind |-> ""]

IS_DATATYPE(v) == v.t = "DATATYPE"

VAL_TYPE_KIND(v) == v.type_kind

VAL_TYPESET_BITS(v) == v.bits

FLAGIT_KIND(kind) == {kind}

\* the bits the set operations combine the typeset with: a DATATYPE!
\* argument has its bits overwritten with the bit of its own cell's kind
Typeset_Arg_Bits(arg) ==
    IF IS_DATATYPE(arg) THEN FLAGIT_KIND(arg.t) ELSE VAL_TYPESET_BITS(arg)

Typeset_Out(val, out) == [failed |-> FALSE, error |-> "", val |-> val, out |-> out]

Typeset_Fail(val, error) ==
    [failed |-> TRUE, error |-> error, val |-> val, out |-> No_Arg]

T_Typeset(val, verb, arg) ==
    IF verb = "SYM_FIND"
      THEN IF ~IS_DATATYPE(arg) THEN Typeset_Fail(val, "Error_Invalid")
           ELSE IF TYPE_CHECK(val, VAL_TYPE_KIND(arg))
             THEN Typeset_Out(val, [No_Arg EXCEPT !.t = "BAR"])
             ELSE Typeset_Out(val, No_Arg)
    ELSE IF verb \in {"SYM_INTERSECT", "SYM_UNION", "SYM_DIFFERENCE"}
      THEN IF ~IS_DATATYPE(arg) /\ ~IS_TYPESET(arg)
             THEN Typeset_Fail(val, "Error_Invalid")
             ELSE LET a == VAL_TYPESET_BITS(val)
                      b == Typeset_Arg_Bits(arg)
                      bits == IF verb = "SYM_UNION" THEN a \cup b
                              ELSE IF verb = "SYM_INTERSECT" THEN a \cap b
                              ELSE (a \ b) \cup (b \ a)
                      changed == [val EXCEPT !.bits = bits]
                  IN  Typeset_Out(changed, changed)
    ELSE IF verb = "SYM_COMPLEMENT"
      THEN LET changed == [val EXCEPT !.bits = Typeset_Kinds \ VAL_TYPESET_BITS(val)]
           IN  Typeset_Out(changed, changed)
    ELSE Typeset_Fail(val, "Error_Illegal_Action")

\* the verbs the handler is called with, and those that take one argument
Typeset_Verbs ==
    {"SYM_FIND", "SYM_INTERSECT", "SYM_UNION", "SYM_DIFFERENCE", "SYM_COMPLEMENT",
     "SYM_APPEND"}

Unary_Verbs == {"SYM_COMPLEMENT"}

Typeset_Values == {Typeset_Value(bits) : bits \in SUBSET Typeset_Kinds}

Typeset_Args ==
    Typeset_Values \cup {Datatype_Value(kind) : kind \in Typeset_Kinds}
        \cup {Integer_Value}

\* a frame of the handler, before it runs: a typeset, a verb and the
\* argument the verb takes
Startup_Typeset ==
    \E val \in Typeset_Values, verb \in Typeset_Verbs, arg \in Typeset_Args \cup {No_Arg} :
        /\ arg = No_Arg <=> verb \in Unary_Verbs
        /\ quo = [called |-> FALSE, verb |-> verb, val |-> val, arg |-> arg,
                  result |-> Typeset_Out(val, No_Arg)]

\* the handler runs: quo keeps the arguments as they were passed, and the
\* typeset and D_OUT as the handler left them
Typeset ==
    /\ ~quo.called
    /\ quo' = [quo EXCEPT !.called = TRUE,
                          !.result = T_Typeset(quo.val, quo.verb, quo.arg)]
    /\ UNCHANGED <<internVars, gcVars, paramVars, dispVars, frameVars>>

InitTypeset ==
    Startup_Interning /\ GC_Quiet /\ Param_Quiet /\ Disp_Quiet /\ Startup_Typeset /\ Frame_Quiet

NextTypeset == Typeset

SpecTypeset == InitTypeset /\ [][NextTypeset]_vars

(***************************************************************************)
(* The generic handler of QUOTED! (t-quoted.c, REBTYPE(Quoted))            *)
(*                                                                         *)
(* Generic_Dispatcher and the cell routines the handler calls are not      *)
(* under src/: following the specification, the dispatcher runs the        *)
(* handler of the kind of the first argument and leaves the data stack as  *)
(* it found it.                                                            *)
(***************************************************************************)
\* the kind of the cell inside the quote levels
CELL_KIND_UNESCAPED(v) ==
    IF KIND_BYTE(v) = REB_QUOTED THEN v.quoted_kind ELSE KIND_BYTE(v) % REB_64

VAL_QUOTED_DEPTH(v) == VAL_NUM_QUOTES(v)

\* remove every quote level of a cell
Dequotify(v) == Unquotify(v, VAL_NUM_QUOTES(v))

Init_Integer(n) == Plain_Cell(1, n)

\* the handler that runs, and the first argument it runs on
Generic_Dispatcher(arg, verb) == [kind |-> VAL_TYPE(arg), verb |-> verb, arg |-> arg]

No_Dispatch == [kind |-> 0, verb |-> "", arg |-> Plain_Cell(0, 0)]

\* the variant in which REFLECT keeps the quote levels too
Escaped_Verbs_WithReflect ==
    {"SYM_ADD", "SYM_SUBTRACT", "SYM_MULTIPLY", "SYM_DIVIDE",
     "SYM_FIND", "SYM_COPY", "SYM_SKIP", "SYM_AT",
     "SYM_APPEND", "SYM_CHANGE", "SYM_INSERT", "SYM_REFLECT"}

\* the verbs whose case of the switch goes to the label escaped
Escaped_Verbs ==
    {"SYM_ADD", "SYM_SUBTRACT", "SYM_MULTIPLY", "SYM_DIVIDE",
     "SYM_FIND", "SYM_COPY", "SYM_SKIP", "SYM_AT",
     "SYM_APPEND", "SYM_CHANGE", "SYM_INSERT"}

T_Quoted(quoted, verb, param, ds) ==
    LET kind == CELL_KIND_UNESCAPED(quoted)
        depth == IF verb \in Escaped_Verbs THEN VAL_QUOTED_DEPTH(quoted) ELSE 0
        arg == Dequotify(quoted)
    IN  IF ~TYPE_CHECK(param, kind)
          THEN [failed |-> TRUE, error |-> "Error_Arg_Type", arg |-> quoted,
                r |-> No_Dispatch, ds |-> ds]
          ELSE [failed |-> FALSE, error |-> "", arg |-> arg,
                r |-> Generic_Dispatcher(arg, verb),
                ds |-> IF depth # 0 THEN Append(ds, Init_Integer(depth)) ELSE ds]

\* the verbs the handler is called with
Quoted_Verbs == Escaped_Verbs \cup {"SYM_REFLECT", "SYM_SELECT", "SYM_PICK"}

\* the quoted values: every kind at every depth from 1 up
Quoted_Values ==
    {Quotify(Plain_Cell(kind, data), depth) :
        kind \in Plain_Kinds, data \in Payloads, depth \in 1..MaxQuotes}

\* the first parameter of the generic: the kinds it accepts
Quoted_Params == {[bits |-> bits] : bits \in SUBSET (Plain_Kinds \cup {REB_QUOTED})}

\* the data stack at the call: empty, or holding a value of the caller
Quoted_Stacks == {<<>>, <<Init_Integer(0)>>}

\* a frame of the handler, before it runs
Startup_Quoted ==
    \E quoted \in Quoted_Values, verb \in Quoted_Verbs, param \in Quoted_Params,
       ds \in Quoted_Stacks :
        quo = [called |-> FALSE, verb |-> verb, quoted |-> quoted, param |-> param,
               ds |-> ds,
               result |-> [failed |-> FALSE, error |-> "", arg |-> quoted,
                           r |-> No_Dispatch, ds |-> ds]]

\* the handler runs: quo keeps the call as it was made, and the first
\* argument, the dispatch and the data stack as the handler left them
Quoted ==
    /\ ~quo.called
    /\ quo' = [quo EXCEPT !.called = TRUE,
                          !.result = T_Quoted(quo.quoted, quo.verb, quo.param, quo.ds)]
    /\ UNCHANGED <<internVars, gcVars, paramVars, dispVars, frameVars>>

InitQuoted ==
    Startup_Interning /\ GC_Quiet /\ Param_Quiet /\ Disp_Quiet /\ Startup_Quoted /\ Frame_Quiet

NextQuoted == Quoted

SpecQuoted == InitQuoted /\ [][NextQuoted]_vars

(***************************************************************************)
(* The generic handler of PAIR! (t-pair.c, REBTYPE(Pair))                  *)
(*                                                                         *)
(* A REBDEC is a rational number in lowest terms: the components and the   *)
(* arguments of the model are small, so every sum, difference, product and *)
(* fmod is exact in a double.  ROUND and RANDOM are not called.            *)
(***************************************************************************)
RECURSIVE Gcd(_, _)
Gcd(a, b) == IF b = 0 THEN a ELSE Gcd(b, a % b)

Magnitude(n) == IF n < 0 THEN 0 - n ELSE n

\* the REBDEC n / d, d # 0
Dec(n, d) ==
    LET g == Gcd(Magnitude(n), Magnitude(d))
        s == IF d < 0 THEN 0 - 1 ELSE 1
    IN  [num |-> (s * n) \div g, den |-> (s * d) \div g]

Dec_Zero == Dec(0, 1)

Dec_Add(a, b) == Dec(a.num * b.den + b.num * a.den, a.den * b.den)

Dec_Subtract(a, b) == Dec(a.num * b.den - b.num * a.den, a.den * b.den)

Dec_Multiply(a, b) == Dec(a.num * b.num, a.den * b.den)

Dec_Divide(a, b) == Dec(a.num * b.den, a.den * b.num)

Dec_Negate(a) == Dec(0 - a.num, a.den)

\* the integer part of a REBDEC, rounded toward zero
Dec_Truncate(a) ==
    Dec((IF a.num < 0 THEN 0 - 1 ELSE 1) * (Magnitude(a.num) \div a.den), 1)

\* the remainder of x / y with the sign of x
fmod(x, y) == Dec_Subtract(x, Dec_Multiply(y, Dec_Truncate(Dec_Divide(x, y))))

Init_Pair(x, y) == [t |-> "PAIR", x |-> x, y |-> y, dec |-> Dec_Zero]

\* an INTEGER!, DECIMAL! or PERCENT! cell of value dec, or a cell of
\* another kind
Number_Value(kind, dec) == [t |-> kind, x |-> Dec_Zero, y |-> Dec_Zero, dec |-> dec]

VAL_PAIR_X(v) == v.x

VAL_PAIR_Y(v) == v.y

Get_Math_Arg_For_Pair(arg) ==
    IF arg.t = "PAIR"
      THEN [failed |-> FALSE, x |-> VAL_PAIR_X(arg), y |-> VAL_PAIR_Y(arg)]
    ELSE IF arg.t \in {"INTEGER", "DECIMAL", "PERCENT"}
      THEN [failed |-> FALSE, x |-> arg.dec, y |-> arg.dec]
    ELSE [failed |-> TRUE, x |-> Dec_Zero, y |-> Dec_Zero]

Pair_Out(out) == [failed |-> FALSE, error |-> "", out |-> out]

Pair_Fail(error) == [failed |-> TRUE, error |-> error, out |-> Init_Pair(Dec_Zero, Dec_Zero)]

T_Pair(val, verb, arg) ==
    LET x1 == VAL_PAIR_X(val)
        y1 == VAL_PAIR_Y(val)
        math == Get_Math_Arg_For_Pair(arg)
        x2 == math.x
        y2 == math.y
    IN  IF verb = "SYM_COPY" THEN Pair_Out(Init_Pair(x1, y1))
        ELSE IF verb \in {"SYM_ADD", "SYM_SUBTRACT", "SYM_MULTIPLY", "SYM_DIVIDE",
                          "SYM_REMAINDER"}
          THEN IF math.failed THEN Pair_Fail("Error_Math_Args")
               ELSE IF verb = "SYM_ADD"
                 THEN Pair_Out(Init_Pair(Dec_Add(x1, x2), Dec_Add(y1, y2)))
               ELSE IF verb = "SYM_SUBTRACT"
                 THEN Pair_Out(Init_Pair(Dec_Subtract(x1, y2), Dec_Subtract(y1, y2)))
               ELSE IF verb = "SYM_MULTIPLY"
                 THEN Pair_Out(Init_Pair(Dec_Multiply(x1, x2), Dec_Multiply(y1, y2)))
               ELSE IF x2 = Dec_Zero \/ y2 = Dec_Zero
                 THEN Pair_Fail("Error_Zero_Divide")
               ELSE IF verb = "SYM_DIVIDE"
                 THEN Pair_Out(Init_Pair(Dec_Divide(x1, x2), Dec_Divide(y1, y2)))
               ELSE Pair_Out(Init_Pair(fmod(x1, x2), fmod(y1, y2)))
        ELSE IF verb = "SYM_NEGATE"
          THEN Pair_Out(Init_Pair(Dec_Negate(x1), Dec_Negate(y1)))
        ELSE IF verb = "SYM_ABSOLUTE"
          THEN Pair_Out(Init_Pair(IF x1.num < 0 THEN Dec_Negate(x1) ELSE x1,
                                  IF y1.num < 0 THEN Dec_Negate(y1) ELSE y1))
        ELSE IF verb = "SYM_REVERSE" THEN Pair_Out(Init_Pair(y1, x1))
        ELSE Pair_Fail("Error_Illegal_Action")

\* the verbs the handler is called with
Pair_Verbs ==
    {"SYM_COPY", "SYM_ADD", "SYM_SUBTRACT", "SYM_MULTIPLY", "SYM_DIVIDE",
     "SYM_REMAINDER", "SYM_NEGATE", "SYM_ABSOLUTE", "SYM_REVERSE", "SYM_APPEND"}

\* the integer-valued components
Coords == {Dec(n, 1) : n \in (0 - MaxCoord)..MaxCoord}

Pair_Values == {Init_Pair(x, y) : x \in Coords, y \in Coords}

\* the second arguments: a pair, an integer, a decimal that may have a
\* fraction, a percent, and a value that is no number
Pair_Args ==
    Pair_Values
        \cup {Number_Value("INTEGER", n) : n \in Coords}
        \cup {Number_Value("DECIMAL", n) : n \in Coords \cup {Dec(1, 2)}}
        \cup {Number_Value("PERCENT", Dec(1, 2)), Number_Value("BLOCK", Dec_Zero)}

\* a frame of the handler, before it runs
Startup_Pair ==
    \E val \in Pair_Values, verb \in Pair_Verbs, arg \in Pair_Args :
        quo = [called |-> FALSE, verb |-> verb, val |-> val, arg |-> arg,
               result |-> Pair_Out(val)]

\* the handler runs: quo keeps the arguments and D_OUT or the error
Pair ==
    /\ ~quo.called
    /\ quo' = [quo EXCEPT !.called = TRUE,
                          !.result = T_Pair(quo.val, quo.verb, quo.arg)]
    /\ UNCHANGED <<internVars, gcVars, paramVars, dispVars, frameVars>>

InitPair ==
    Startup_Interning /\ GC_Quiet /\ Param_Quiet /\ Disp_Quiet /\ Startup_Pair /\ Frame_Quiet

NextPair == Pair

SpecPair == InitPair /\ [][NextPair]_vars

Make ==
    /\ \E spec \in Frame_Specs, with_facade \in BOOLEAN, with_exemplar \in BOOLEAN,
          ndebug \in BOOLEAN, binding \in {UNBOUND, Some_Context} :
          Make_Action(spec, with_facade, with_exemplar, ndebug, binding)
    /\ UNCHANGED <<internVars, gcVars, paramVars, dispVars, quoteVars>>

Frame == Make_Frame /\ UNCHANGED <<internVars, gcVars, paramVars, dispVars, quoteVars>>

InitFrame ==
    Startup_Interning /\ GC_Quiet /\ Param_Quiet /\ Disp_Quiet /\ Quote_Quiet /\ Startup_Action

NextFrame == Make \/ Frame

SpecFrame == InitFrame /\ [][NextFrame]_vars

(***************************************************************************)
(* The interned strings under the collector: words and parameters on the   *)
(* data stack hold spellings, and the sweep releases a string through      *)
(* GC_Kill_Interning.  pool holds the headers of the string nodes, str     *)
(* their content.                                                          *)
(***************************************************************************)
\* DS_PUSH of a word, or of a parameter, made from the spelling utf8; the
\* cells above DSP, which nothing reads, are left out of DS_Array
Push_Word(kind, utf8) ==
    /\ gc.pc = "idle"
    /\ DSP < MaxWords
    /\ Intern_UTF8_Managed(utf8)
    /\ IF hung'
          THEN UNCHANGED <<pool, DS_Array, DSP>>
          ELSE \E v \in {Cell(kind, last_op'.node, NULL)} :
                  /\ pool' = [pool EXCEPT ![v.node] = Make_Node("string", TRUE)]
                  /\ DS_Array' = Append(DS_Array, v)
                  /\ DSP' = DSP + 1
    /\ UNCHANGED <<GC_Mark_Stack, GC_Guarded, Natives, PG_Symbol_Canons, frames,
                   devices, GC_Disabled, Eval_Signals, gc, recycled>>

\* DS_DROP of a word or parameter
Drop_Word ==
    /\ gc.pc = "idle"
    /\ DSP > 0
    /\ DSP' = DSP - 1
    /\ DS_Array' = SubSeq(DS_Array, 1, DSP - 1)
    /\ UNCHANGED <<pool, GC_Mark_Stack, GC_Guarded, Natives, PG_Symbol_Canons,
                   frames, devices, GC_Disabled, Eval_Signals, gc, recycled>>

\* Recycle_Core(false, NULL) up to the sweep: the marking of the roots, none
\* of which queues an array here
Recycle_Words ==
    /\ gc.pc = "idle"
    /\ ~GC_Disabled
    /\ \E m \in {Mark_Devices_Deep(Mark_Frame(Mark_Data_Stack(Mark_Symbol_Series(
                      Mark_Natives(Mark_Root_Series(Marking(pool, GC_Mark_Stack))))),
                      FS_TOP))} :
          /\ ~m.panic
          /\ m.st = <<>>
          /\ pool' = m.h
    /\ gc' = [Idle EXCEPT !.pc = "Sweep_Series", !.again = recycled.done]
    /\ UNCHANGED <<GC_Mark_Stack, rootVars, recycled>>

\* one iteration of the loop of Sweep_Series, over the node after gc.idx; an
\* unmarked string goes through GC_Kill_Interning before its node is released
Sweep_Symbol_Node ==
    /\ gc.pc = "Sweep_Series"
    /\ ~hung
    /\ \E s \in {gc.idx + 1} :
       \E nibble \in {Header_Nibble(pool[s])} :
          /\ IF nibble = 10
                THEN /\ GC_Kill_Interning(s)
                     /\ pool' = IF hung' THEN pool ELSE GC_Kill_Series(pool, s)
                ELSE /\ pool' = IF nibble = 11 THEN [pool EXCEPT ![s].marked = FALSE]
                                ELSE pool
                     /\ UNCHANGED internVars
          /\ \E count \in {(IF s = 1 THEN 0 ELSE recycled.count)
                                + (IF nibble = 10 THEN 1 ELSE 0)} :
                IF nibble = 10 /\ hung'
                   THEN UNCHANGED <<gc, recycled>>
                ELSE IF s < MaxSymbols
                   THEN /\ gc' = [gc EXCEPT !.idx = s]
                        /\ recycled' = [recycled EXCEPT !.count = count]
                ELSE /\ gc' = IF gc.shutdown THEN [Idle EXCEPT !.pc = "shutdown"]
                              ELSE Idle
                     /\ recycled' = [done |-> ~gc.shutdown, count |-> count,
                                     second |-> gc.again /\ ~gc.shutdown,
                                     sweeplist |-> <<>>]
    /\ UNCHANGED <<GC_Mark_Stack, rootVars>>

\* the spellings of the words pushed: "a", "ab", "Ab", "AB"
WordSpellings == { <<97>>, <<97, 98>>, <<65, 98>>, <<65, 66>> }

Push ==
    /\ \E kind \in {"WORD", "P_NORMAL"}, utf8 \in WordSpellings : Push_Word(kind, utf8)
    /\ UNCHANGED <<paramVars, dispVars, quoteVars, frameVars>>

Drop == Drop_Word /\ UNCHANGED <<internVars, paramVars, dispVars, quoteVars, frameVars>>

Sweep_Symbols == Sweep_Symbol_Node /\ UNCHANGED <<paramVars, dispVars, quoteVars, frameVars>>

Recycle_Symbols == Recycle_Words /\ UNCHANGED <<internVars, paramVars, dispVars, quoteVars, frameVars>>

NextSym == Push \/ Drop \/ Recycle_Symbols \/ Sweep_Symbols

SpecSym == Init /\ [][NextSym]_vars

(***************************************************************************)
(* Recycle_Core as its callers see it: with or without a sweeplist, while  *)
(* the collector is disabled, and re-entered from the debug code of a      *)
(* cycle in progress                                                       *)
(***************************************************************************)
\* RECYCLE/OFF and RECYCLE/ON
Set_GC_Disabled(flag) ==
    /\ gc.pc = "idle"
    /\ GC_Disabled # flag
    /\ GC_Disabled' = flag
    /\ UNCHANGED <<pool, GC_Mark_Stack, GC_Guarded, DS_Array, DSP, Natives,
                   PG_Symbol_Canons, frames, devices, Eval_Signals, gc, recycled>>

\* the calls of Recycle_Core up to the first cycle that completes, but the
\* call that starts an ordinary cycle, which SpecGC makes
Enter ==
    /\ gc.pc # "shutdown"
    /\ ~recycled.done
    /\ \E shutdown \in BOOLEAN, sweeplist \in {NULL, Sweeplist} :
          /\ GC_Recycling \/ GC_Disabled \/ shutdown \/ sweeplist # NULL
          /\ Recycle_Core(shutdown, sweeplist)
    /\ UNCHANGED <<internVars, paramVars, dispVars, quoteVars, frameVars>>

Off_On ==
    /\ \E flag \in BOOLEAN : Set_GC_Disabled(flag)
    /\ UNCHANGED <<internVars, paramVars, dispVars, quoteVars, frameVars>>

NextRecycle == Enter \/ Off_On \/ Mark_Roots \/ Propagate \/ Sweep

SpecRecycle == InitGC /\ [][NextRecycle]_vars

(***************************************************************************)
(* Properties of the symbol interner                                       *)
(***************************************************************************)
Fold(utf8) == [i \in 1..Len(utf8) |-> LO_CASE(utf8[i])]

LiveSyms == {n \in SymNodes : str[n].live}

\* the k-th successor of n on the synonym links of s
RECURSIVE Nth_Synonym(_, _, _)
Nth_Synonym(s, n, k) ==
    IF k = 0 \/ n = NULL THEN n ELSE Nth_Synonym(s, s[n].synonym, k - 1)

\* the members of the ring of n
Ring(n) == {Nth_Synonym(str, n, k) : k \in 0..MaxSymbols}

\* following the links from n returns to n without revisiting a node
Simple_Cycle(n) ==
    \E k \in 1..MaxSymbols :
        /\ Nth_Synonym(str, n, k) = n
        /\ \A i \in 0..(k - 1) :
              /\ Nth_Synonym(str, n, i) \in LiveSyms
              /\ \A j \in 0..(k - 1) :
                    i # j => Nth_Synonym(str, n, i) # Nth_Synonym(str, n, j)

Slots_Of(n) == {slot \in DOMAIN canons_by_hash : canons_by_hash[slot] = n}

\* C1: after any sequence of interns and kills (table expansions included),
\* two live symbols have the same canon exactly when their spellings are equal
\* ignoring case; the symbol an intern returns carries the bytes interned.
C1_CanonIffCaseEqual ==
    /\ \A m, n \in LiveSyms :
          /\ STR_CANON(m) \in LiveSyms
          /\ (STR_CANON(m) = STR_CANON(n))
                <=> (Fold(str[m].spelling) = Fold(str[n].spelling))
    /\ (last_op.op = "intern" /\ ~hung) =>
          /\ last_op.node \in LiveSyms
          /\ str[last_op.node].spelling = last_op.arg

\* two casings of one name share a canon while another name is live, in a
\* table that was expanded and holds a tombstone
C1_Witness ==
    /\ NumSlots(canons_by_hash) = 13
    /\ PG_Num_Canon_Deleteds > 0
    /\ \E m, n, o \in LiveSyms :
          /\ m # n
          /\ STR_CANON(m) = STR_CANON(n)
          /\ STR_CANON(o) # STR_CANON(m)

\* C2: an intern of a spelling that has a live symbol returns that symbol and
\* changes no node; the symbol returned always carries exactly the bytes
\* interned, and no two live symbols carry the same bytes.
C2_InternIdempotent ==
    [][ (last_op'.op = "intern" /\ ~hung') =>
          /\ str'[last_op'.node].live
          /\ str'[last_op'.node].spelling = last_op'.arg
          /\ \A n \in SymNodes :
                (str[n].live /\ str[n].spelling = last_op'.arg) =>
                    /\ last_op'.node = n
                    /\ ~last_op'.created
                    /\ str' = str
          /\ \A m, n \in SymNodes :
                (str'[m].live /\ str'[n].live /\ m # n) =>
                    str'[m].spelling # str'[n].spelling ]_vars

\* an intern returned an existing non-canon symbol of a ring of three after
\* the table was expanded
C2_Witness ==
    /\ last_op.op = "intern"
    /\ ~last_op.created
    /\ ~hung
    /\ ~str[last_op.node].canon
    /\ Cardinality(Ring(last_op.node)) = 3
    /\ NumSlots(canons_by_hash) > 1

\* C3: every synonym ring is a simple cycle with exactly one member flagged
\* canon, that member sits in the hash table, and the hash table holds
\* nothing but live canons.
C3_RingsWellFormed ==
    /\ \A n \in LiveSyms :
          /\ Simple_Cycle(n)
          /\ Cardinality({m \in Ring(n) : str[m].canon}) = 1
          /\ str[n].canon => Cardinality(Slots_Of(n)) = 1
    /\ \A slot \in DOMAIN canons_by_hash :
          canons_by_hash[slot] \notin {NULL, DELETED_CANON} =>
              /\ canons_by_hash[slot] \in LiveSyms
              /\ str[canons_by_hash[slot]].canon

\* a ring of three exists after a member of it was killed
C3_Witness ==
    /\ last_op.op = "kill"
    /\ ~hung
    /\ \E n \in LiveSyms : Cardinality(Ring(n)) >= 2
    /\ PG_Num_Canon_Deleteds > 0

\* C4: the kill of a canon whose ring has other members makes the next ring
\* member the canon in the same hash slot; every intern of a casing of a name
\* whose canon is live returns a symbol of that canon.
C4_PromotionOnKill ==
    [][ /\ (/\ last_op'.op = "kill"
            /\ ~hung'
            /\ str[last_op'.node].canon
            /\ str[last_op'.node].synonym # last_op'.node) =>
              LET intern == last_op'.node
                  synonym == str[intern].synonym
              IN  /\ str'[synonym].live
                  /\ str'[synonym].canon
                  /\ \A slot \in DOMAIN canons_by_hash :
                        canons_by_hash'[slot] =
                            IF canons_by_hash[slot] = intern
                                THEN synonym
                                ELSE canons_by_hash[slot]
                  /\ \E slot \in DOMAIN canons_by_hash :
                        canons_by_hash[slot] = intern
        /\ (last_op'.op = "intern" /\ ~hung') =>
              \A c \in SymNodes :
                  (/\ str[c].live
                   /\ str[c].canon
                   /\ Fold(str[c].spelling) = Fold(last_op'.arg)) =>
                        STR_CANON_In(str', last_op'.node) = c ]_vars

\* a canon with a ring of three was killed and its successor now holds the
\* canon flag and a hash slot of the expanded table
C4_Witness ==
    /\ last_op.op = "kill"
    /\ ~hung
    /\ last_op.promoted # NULL
    /\ str[last_op.promoted].canon
    /\ Cardinality(Ring(last_op.promoted)) = 2
    /\ Slots_Of(last_op.promoted) # {}
    /\ NumSlots(canons_by_hash) = 13


\* the probe for n from slot reaches n before an empty slot; passed is TRUE
\* once the probe went over the slot given
RECURSIVE Probe_Finds(_, _, _, _, _)
Probe_Finds(tbl, slot, skip, n, fuel) ==
    IF tbl[slot] = n THEN TRUE
    ELSE IF tbl[slot] = NULL \/ fuel = 0 THEN FALSE
    ELSE Probe_Finds(tbl, NextSlot(slot, skip, NumSlots(tbl)), skip, n, fuel - 1)

\* the slots the probe for n goes over before it ends
RECURSIVE Probe_Path(_, _, _, _, _)
Probe_Path(tbl, slot, skip, n, fuel) ==
    IF tbl[slot] = n \/ tbl[slot] = NULL \/ fuel = 0 THEN {}
    ELSE {slot} \cup Probe_Path(tbl, NextSlot(slot, skip, NumSlots(tbl)), skip, n,
                                fuel - 1)

\* the canon c of the symbols s is found by the probe from its own hash start
Findable(tbl, s, c) ==
    LET hash == Hash_UTF8(s[c].spelling)
    IN  Probe_Finds(tbl, First_Slot(hash, NumSlots(tbl)), Skip_Of(hash, NumSlots(tbl)),
                    c, NumSlots(tbl))

\* the last operation removed a canon whose ring was itself
Killed_Trivial_Canon(op) ==
    op.op = "kill" /\ op.was_canon /\ op.promoted = NULL

\* C19: after GC_Kill_Interning has removed a canon whose ring was trivial,
\* every other canon of the table is still found by the probe from its own
\* hash start before an empty slot, and an intern of its exact bytes returns
\* it and creates no symbol.
C19_OthersStayFindable ==
    [][/\ (Killed_Trivial_Canon(last_op') /\ ~hung') =>
             (/\ \A slot \in DOMAIN canons_by_hash' :
                    canons_by_hash'[slot] # last_op'.node
              /\ canons_by_hash'[last_op'.slot] = DELETED_CANON
              /\ ~str'[last_op'.node].live
              /\ \A c \in SymNodes \ {last_op'.node} :
                    (str[c].live /\ str[c].canon) =>
                        (/\ str'[c] = str[c]
                         /\ \E slot \in DOMAIN canons_by_hash' : canons_by_hash'[slot] = c
                         /\ Findable(canons_by_hash', str', c)))
       /\ (Killed_Trivial_Canon(last_op) /\ ~hung /\ last_op'.op = "intern" /\ ~hung') =>
             (\A c \in SymNodes :
                 (str[c].live /\ str[c].canon /\ str[c].spelling = last_op'.arg) =>
                     (last_op'.node = c /\ ~last_op'.created /\ str' = str))]_vars

\* a canon was removed and another canon is found by a probe that goes over
\* the slot the removed canon had
C19_Witness ==
    /\ Killed_Trivial_Canon(last_op)
    /\ ~hung
    /\ canons_by_hash[last_op.slot] = DELETED_CANON
    /\ \E c \in LiveSyms :
          /\ str[c].canon
          /\ Findable(canons_by_hash, str, c)
          /\ LET hash == Hash_String(c)
                 n == NumSlots(canons_by_hash)
             IN  last_op.slot \in Probe_Path(canons_by_hash, First_Slot(hash, n),
                                             Skip_Of(hash, n), c, n)

Empty_Slot(tbl) == \E slot \in DOMAIN tbl : tbl[slot] = NULL

\* the table the probe of the next Intern_UTF8_Managed runs on
Intern_Table ==
    IF PG_Num_Canon_Slots_In_Use > NumSlots(canons_by_hash) \div 2
       THEN Expand_Word_Table(canons_by_hash, PG_Num_Canon_Slots_In_Use,
                              PG_Num_Canon_Deleteds)
       ELSE [tbl |-> canons_by_hash, in_use |-> PG_Num_Canon_Slots_In_Use,
             deleteds |-> PG_Num_Canon_Deleteds, failed |-> FALSE]

\* a canon is live, so that the probe of a GC_Kill_Interning may run
Kill_May_Probe == \E c \in SymNodes : str[c].live /\ str[c].canon

\* C20: no probe loop of Intern_UTF8_Managed or GC_Kill_Interning fails to
\* terminate, and whenever a probe runs the hash table has an empty slot,
\* from the initial table of one slot on and after any interns, kills and
\* expansions.
C20_ProbesTerminate ==
    /\ ~hung
    /\ Intern_Table.failed \/ Empty_Slot(Intern_Table.tbl)
    /\ Kill_May_Probe => Empty_Slot(canons_by_hash)

\* the same for the probes of the interns, and for those of the kills in a
\* table of more than one slot
Probes_Terminate_But_OneSlot ==
    /\ Intern_Table.failed \/ Empty_Slot(Intern_Table.tbl)
    /\ last_op.op = "intern" => ~hung
    /\ NumSlots(canons_by_hash) > 1 => (~hung /\ Empty_Slot(canons_by_hash))

\* the kill of the only canon of the table of one slot never returns
C20_KillHangs ==
    /\ hung
    /\ last_op.op = "kill"
    /\ last_op.was_canon
    /\ NumSlots(canons_by_hash) = 1
    /\ ~Empty_Slot(canons_by_hash)

\* the sizes of the list of primes, without its terminator
Listed_Primes == {Primes[n] : n \in 1..(Len(Primes) - 1)}

\* an Intern_UTF8_Managed step replaced the hash table by a larger one
Expanded_Step == last_op'.op = "intern" /\ DOMAIN canons_by_hash' # DOMAIN canons_by_hash

\* the steps that are a call of Intern_UTF8_Managed
Intern_Step == last_op'.op = "intern" /\ internVars' # internVars

\* C21 as stated: whenever Intern_UTF8_Managed expands the table (slot-usage
\* counter > half the slot count), the new slot count is a prime that is at
\* least double the old slot count; if the list of primes has no such size the
\* operation fails and the table is left unchanged.
C21_ExpandsToDouble ==
    [][/\ Expanded_Step =>
             (/\ PG_Num_Canon_Slots_In_Use > NumSlots(canons_by_hash) \div 2
              /\ NumSlots(canons_by_hash') \in Listed_Primes
              /\ NumSlots(canons_by_hash') >= 2 * NumSlots(canons_by_hash))
       /\ (last_op'.op = "intern" /\ Intern_Table.failed) =>
             UNCHANGED canons_by_hash]_vars

\* C21, amended: whenever Intern_UTF8_Managed expands the table, which it
\* does exactly when the slot-usage counter is above half the slot count, the
\* new slot count is the first prime of the list that is greater than the old
\* slot count (13 after 7, which is less than double); if the list has no
\* greater size the operation fails and the table is left unchanged.
C21_ExpandsToNextPrime ==
    [][/\ Intern_Step =>
             (Expanded_Step <=>
                 PG_Num_Canon_Slots_In_Use > NumSlots(canons_by_hash) \div 2)
       /\ Expanded_Step =>
             (/\ NumSlots(canons_by_hash') \in Listed_Primes
              /\ NumSlots(canons_by_hash') > NumSlots(canons_by_hash)
              /\ \A prime \in Listed_Primes :
                    prime > NumSlots(canons_by_hash) =>
                        NumSlots(canons_by_hash') <= prime)
       /\ (last_op'.op = "intern" /\ Intern_Table.failed) =>
             UNCHANGED canons_by_hash]_vars

\* the table of 7 slots was expanded to the 13 slots that follow in the list
C21_Witness ==
    /\ last_op.op = "intern"
    /\ last_op.expanded
    /\ ~hung
    /\ NumSlots(canons_by_hash) = 13
    /\ PG_Num_Canon_Slots_In_Use < 4

\* the slots of the table that hold a canon or a tombstone
Non_Empty_Slots == {slot \in DOMAIN canons_by_hash : canons_by_hash[slot] # NULL}

Tombstones == {slot \in DOMAIN canons_by_hash : canons_by_hash[slot] = DELETED_CANON}

\* C22 as stated: between interner operations, the number of non-empty hash
\* slots (live canons plus tombstones) equals the slot-usage counter plus the
\* tombstone counter.
C22_OccupancyIsSum ==
    ~hung =>
        Cardinality(Non_Empty_Slots) = PG_Num_Canon_Slots_In_Use + PG_Num_Canon_Deleteds

\* C22, amended: between interner operations, the number of non-empty hash
\* slots (live canons plus tombstones) equals the slot-usage counter alone,
\* which counts the tombstones too; the tombstone counter, which debug builds
\* keep, equals the number of tombstones, so that the live canons number the
\* slot-usage counter minus the tombstone counter.
C22_OccupancyIsUsage ==
    ~hung =>
        /\ Cardinality(Non_Empty_Slots) = PG_Num_Canon_Slots_In_Use
        /\ Cardinality(Tombstones) = PG_Num_Canon_Deleteds
        /\ Cardinality({c \in LiveSyms : str[c].canon}) =
              PG_Num_Canon_Slots_In_Use - PG_Num_Canon_Deleteds

\* an expanded table holds a canon and a tombstone left after the expansion
C22_Witness ==
    /\ ~hung
    /\ NumSlots(canons_by_hash) = 13
    /\ PG_Num_Canon_Deleteds = 1
    /\ PG_Num_Canon_Slots_In_Use = 3
    /\ last_op.op = "kill"

\* the canons a table holds
Canons_Of(tbl) == {tbl[slot] : slot \in DOMAIN tbl} \ {NULL, DELETED_CANON}

\* C23: Expand_Word_Table preserves the set of canons: after the expansion
\* the new table holds exactly the live canons of the old table, each exactly
\* once and found by the probe from its hash start, it holds no tombstone, and
\* the tombstone counter is zero; the intern that expanded goes on with that
\* table.
C23_ExpandPreservesCanons ==
    [][Expanded_Step =>
          LET e == Expand_Word_Table(canons_by_hash, PG_Num_Canon_Slots_In_Use,
                                     PG_Num_Canon_Deleteds)
          IN  /\ ~e.failed
              /\ Canons_Of(e.tbl) = Canons_Of(canons_by_hash)
              /\ Canons_Of(e.tbl) = {c \in LiveSyms : str[c].canon}
              /\ \A c \in Canons_Of(e.tbl) :
                    /\ Cardinality({slot \in DOMAIN e.tbl : e.tbl[slot] = c}) = 1
                    /\ Findable(e.tbl, str, c)
              /\ \A slot \in DOMAIN e.tbl : e.tbl[slot] # DELETED_CANON
              /\ e.deleteds = 0
              /\ e.in_use = Cardinality(Canons_Of(e.tbl))
              /\ DOMAIN canons_by_hash' = DOMAIN e.tbl
              /\ \A slot \in DOMAIN e.tbl :
                    \/ canons_by_hash'[slot] = e.tbl[slot]
                    \/ /\ last_op'.created
                       /\ last_op'.was_canon
                       /\ slot = last_op'.slot
                       /\ e.tbl[slot] = NULL
                       /\ canons_by_hash'[slot] = last_op'.node
              /\ \A c \in Canons_Of(e.tbl) : str'[c].spelling = str[c].spelling]_vars

\* the expansion of a table of 7 slots dropped two tombstones and kept two
\* canons, and the intern found one of them
C23_Witness ==
    /\ last_op.op = "intern"
    /\ last_op.expanded
    /\ ~last_op.created
    /\ ~hung
    /\ NumSlots(canons_by_hash) = 13
    /\ PG_Num_Canon_Slots_In_Use = 2
    /\ PG_Num_Canon_Deleteds = 0

\* the first tombstone the probe of a new canon goes over before the empty
\* slot that ends it (-1 when it goes over none)
RECURSIVE First_Tombstone(_, _, _, _)
First_Tombstone(tbl, slot, skip, fuel) ==
    IF tbl[slot] = NULL \/ fuel = 0 THEN 0 - 1
    ELSE IF tbl[slot] = DELETED_CANON THEN slot
    ELSE First_Tombstone(tbl, NextSlot(slot, skip, NumSlots(tbl)), skip, fuel - 1)

\* the last tombstone that probe goes over (-1 when it goes over none)
RECURSIVE Last_Tombstone(_, _, _, _, _)
Last_Tombstone(tbl, slot, skip, deleted_slot, fuel) ==
    IF tbl[slot] = NULL \/ fuel = 0 THEN deleted_slot
    ELSE Last_Tombstone(tbl, NextSlot(slot, skip, NumSlots(tbl)), skip,
                        IF tbl[slot] = DELETED_CANON THEN slot ELSE deleted_slot,
                        fuel - 1)

\* an Intern_UTF8_Managed step made a new canon
New_Canon_Step ==
    /\ last_op'.op = "intern"
    /\ last_op'.created
    /\ last_op'.was_canon
    /\ ~hung'
    /\ internVars' # internVars

\* C24: when Intern_UTF8_Managed creates a new canon and its probe sequence
\* passed at least one tombstone, the canon is installed at the first
\* tombstone encountered on that probe sequence (otherwise at the empty slot
\* that ends the probe); the slot-usage counter is unchanged when a tombstone
\* is reused and incremented by one otherwise.
C24_FirstTombstoneReused ==
    [][New_Canon_Step =>
          LET e == Intern_Table
              n == NumSlots(e.tbl)
              hash == Hash_UTF8(last_op'.arg)
              first == First_Tombstone(e.tbl, First_Slot(hash, n), Skip_Of(hash, n), n)
          IN  IF first # 0 - 1
                 THEN /\ canons_by_hash' = [e.tbl EXCEPT ![first] = last_op'.node]
                      /\ PG_Num_Canon_Slots_In_Use' = e.in_use
                 ELSE /\ e.tbl[last_op'.slot] = NULL
                      /\ canons_by_hash' = [e.tbl EXCEPT ![last_op'.slot] = last_op'.node]
                      /\ PG_Num_Canon_Slots_In_Use' = e.in_use + 1]_vars

\* what the code does: the new canon is installed at the last tombstone the
\* probe went over
Last_Tombstone_Reused ==
    [][New_Canon_Step =>
          LET e == Intern_Table
              n == NumSlots(e.tbl)
              hash == Hash_UTF8(last_op'.arg)
              last == Last_Tombstone(e.tbl, First_Slot(hash, n), Skip_Of(hash, n),
                                     0 - 1, n)
          IN  IF last # 0 - 1
                 THEN /\ canons_by_hash' = [e.tbl EXCEPT ![last] = last_op'.node]
                      /\ PG_Num_Canon_Slots_In_Use' = e.in_use
                      /\ PG_Num_Canon_Deleteds' = e.deleteds - 1
                 ELSE /\ e.tbl[last_op'.slot] = NULL
                      /\ canons_by_hash' = [e.tbl EXCEPT ![last_op'.slot] = last_op'.node]
                      /\ PG_Num_Canon_Slots_In_Use' = e.in_use + 1
                      /\ PG_Num_Canon_Deleteds' = e.deleteds]_vars

\* a word or parameter cell of the data stack holds the string n
Referenced(n) == \E i \in 1..DSP : DS_Array[i].node = n

\* the sweep acts on the string n
Swept(n) ==
    /\ gc.pc = "Sweep_Series"
    /\ gc.idx + 1 = n
    /\ <<gc, hung>>' # <<gc, hung>>

\* C25 as stated: a canon is not freed while a word or parameter cell
\* references a synonym of its ring
C25_CanonKeptForSynonym ==
    [][\A c \in SymNodes :
          (str[c].live /\ str[c].canon /\ \E s \in Ring(c) : Referenced(s))
              => str'[c].live]_vars

\* C25 amended: a string, canon or synonym, is not freed while a word or
\* parameter cell references that very node; an unreferenced canon is freed
\* when the sweep reaches it although a synonym of its ring is referenced, and
\* its successor in the ring becomes the canon of the hash slot
C25_SymbolKeptWhileReferenced ==
    [][\A n \in SymNodes :
          str[n].live =>
             /\ Referenced(n) => str'[n].live /\ str'[n].spelling = str[n].spelling
             /\ (/\ Swept(n)
                 /\ str[n].canon
                 /\ ~Referenced(n)
                 /\ \E s \in Ring(n) \ {n} : Referenced(s))
                   => /\ ~str'[n].live
                      /\ ~hung'
                      /\ str'[str[n].synonym].live
                      /\ str'[str[n].synonym].canon
                      /\ \E slot \in DOMAIN canons_by_hash :
                            /\ canons_by_hash[slot] = n
                            /\ canons_by_hash'[slot] = str[n].synonym]_vars

\* the sweep has freed a canon and promoted a synonym that a cell references
C25_Witness ==
    /\ last_op.op = "kill"
    /\ last_op.was_canon
    /\ last_op.promoted # NULL
    /\ Referenced(last_op.promoted)
    /\ str[last_op.promoted].canon
    /\ ~str[last_op.node].live

(***************************************************************************)
(* Properties of the garbage collector                                     *)
(***************************************************************************)
Range(seq) == {seq[i] : i \in DOMAIN seq}

\* the nodes a cell refers to
Cell_Refs(v) ==
    (IF v.node # NULL THEN {v.node} ELSE {})
        \cup (IF v.phase # NULL THEN {v.phase} ELSE {})

Cells_Refs(cells) == UNION {Cell_Refs(cells[i]) : i \in DOMAIN cells}

\* the file string of a plain array with ARRAY_FLAG_FILE_LINE
File_Refs(s) ==
    IF ~pool[s].free /\ pool[s].class = "array" /\ pool[s].file_line
       THEN {pool[s].link} ELSE {}

\* the nodes a live node refers to: through its cells when it is an
\* accessible array, and through the LINK and MISC fields of its class
Node_Refs(s) ==
    IF pool[s].free THEN {}
    ELSE (IF IS_SER_ARRAY(pool, s) /\ ~pool[s].inaccessible
             THEN Cells_Refs(pool[s].cells) ELSE {})
         \cup (IF pool[s].class = "paramlist"
                  THEN {pool[s].details, pool[s].link, pool[pool[s].details].link}
                  ELSE {})
         \cup (IF pool[s].class = "varlist" /\ ~pool[s].keysource_cell
                  THEN {pool[s].link} ELSE {})
         \cup (IF pool[s].class \in {"paramlist", "varlist"} /\ pool[s].meta # NULL
                  THEN {pool[s].meta} ELSE {})

Frame_Refs(f) ==
    ({f.array, f.original, f.opt_label, f.varlist} \ {NULL}) \cup Cell_Refs(f.out)

\* the nodes the roots refer to
Root_Nodes ==
    {s \in GCNodes : ~pool[s].free /\ pool[s].root}
        \cup Range(GC_Guarded)
        \cup Cells_Refs(SubSeq(DS_Array, 1, DSP))
        \cup Cells_Refs(Natives)
        \cup Range(PG_Symbol_Canons)
        \cup UNION {Frame_Refs(frames[i]) : i \in DOMAIN frames}
        \cup (Range(devices) \ {NULL})

\* the nodes reached from S, following the file strings of arrays or not
RECURSIVE Closure(_, _)
Closure(S, files) ==
    LET N == S \cup UNION {Node_Refs(s) : s \in S}
               \cup (IF files THEN UNION {File_Refs(s) : s \in S} ELSE {})
    IN  IF N = S THEN S ELSE Closure(N, files)

Reachable == Closure(Root_Nodes, TRUE)

\* C5: in a non-shutdown Recycle_Core, when the sweep begins every managed
\* node reachable from a root (live API handles, guarded nodes, data stack
\* cells up to DS_TOP, natives, symbol canons, frames, device requests) is
\* marked, and the sweep does not free it.
C5_ReachableMarkedAndKept ==
    [][(gc.pc = "Sweep_Series" /\ ~gc.shutdown) =>
          \A s \in Reachable :
              pool[s].managed => pool[s].marked /\ ~pool'[s].free]_vars

\* the same with the file strings of arrays left out of what is reachable
GC_ReachableButFilesMarkedAndKept ==
    [][(gc.pc = "Sweep_Series" /\ ~gc.shutdown) =>
          \A s \in Closure(Root_Nodes, FALSE) :
              pool[s].managed => pool[s].marked /\ ~pool'[s].free]_vars

\* a recycle has freed the file string of a guarded array it has kept
C5_FileFreed ==
    /\ gc.pc = "idle"
    /\ recycled.done
    /\ \E s \in Range(GC_Guarded) :
           ~pool[s].free /\ pool[s].file_line /\ pool[pool[s].link].free

\* a recycle has freed nodes and kept a node that no root refers to directly
C5_Witness ==
    /\ gc.pc = "idle"
    /\ recycled.done
    /\ recycled.count > 0
    /\ \E s \in Reachable \ Root_Nodes : ~pool[s].free /\ pool[s].managed
    /\ \E s \in Reachable : pool[s].class = "paramlist"

\* C6: the sweep frees exactly the managed unmarked nodes, clears the mark
\* of the managed marked nodes and leaves the unmanaged and the free nodes as
\* they are; when Recycle_Core has returned no node of the pool is marked.
C6_SweepExact ==
    [][gc.pc = "Sweep_Series" /\ gc'.pc \in {"idle", "shutdown"} =>
          /\ \A s \in GCNodes :
                /\ pool[s].managed /\ ~pool[s].marked => pool'[s].free
                /\ pool[s].managed /\ pool[s].marked =>
                       pool'[s] = [pool[s] EXCEPT !.marked = FALSE]
                /\ ~pool[s].managed => pool'[s] = pool[s]
          /\ \A s \in GCNodes : ~pool'[s].marked]_vars

\* a sweep has freed a node, kept a managed node and kept a manual node
C6_Witness ==
    /\ gc.pc = "idle"
    /\ recycled.count > 0
    /\ \E s \in GCNodes : ~pool[s].free /\ pool[s].managed
    /\ \E s \in GCNodes : ~pool[s].free /\ ~pool[s].managed

\* C7: a Recycle_Core run right after a Recycle_Core, with no step of the
\* interpreter in between, frees no node.
C7_RecycleIdempotent == recycled.second => recycled.count = 0

\* a second recycle has returned, after a first one that freed nodes and kept
\* others
C7_Witness ==
    /\ recycled.second
    /\ \E s \in GCNodes : ~pool[s].free /\ pool[s].managed
    /\ \E s \in GCNodes : s # Handle /\ pool[s].free

\* C8: the mark stack is empty when Recycle_Core starts, when the sweep
\* starts and when Recycle_Core has returned, with and without shutdown.
C8_MarkStackEmpty ==
    gc.pc \in {"idle", "Mark_Root_Series", "Sweep_Series", "shutdown"} =>
        GC_Mark_Stack = <<>>

\* the sweep of a shutdown starts after marks were propagated
C8_Witness ==
    /\ gc.pc = "Sweep_Series"
    /\ gc.shutdown
    /\ \E s \in GCNodes : pool[s].marked /\ ~pool[s].root

\* the API handle of the pool is live
Live_Handle == ~pool[Handle].free /\ pool[Handle].root /\ pool[Handle].managed

\* the frame context that owns the handle
Handle_Owner == pool[pool[Handle].link]

\* Mark_Root_Series on a live handle: marked with the node of its cell when
\* the owner is accessible, freed with no panic when the owner is
\* inaccessible and failed, a panic when it is inaccessible and not failed
Handle_Marked_Freed_Or_Leaked ==
    [][(gc.pc = "Mark_Root_Series" /\ Live_Handle) =>
          (/\ ~Handle_Owner.inaccessible =>
                 (/\ ~pool'[Handle].free
                  /\ gc'.pc # "panic" =>
                        (/\ pool'[Handle].marked
                         /\ \A s \in Cell_Refs(pool[Handle].cells[1]) : pool'[s].marked))
           /\ (Handle_Owner.inaccessible /\ Handle_Owner.failed) =>
                 (pool'[Handle].free /\ gc'.pc # "panic")
           /\ (Handle_Owner.inaccessible /\ ~Handle_Owner.failed) =>
                 (gc'.pc = "panic" /\ ~pool'[Handle].free))]_vars

\* when the sweep starts, a live handle is marked and so is every node
\* reached from its cell
Handle_Value_Marked_Deep ==
    (gc.pc = "Sweep_Series" /\ Live_Handle) =>
        /\ ~Handle_Owner.inaccessible
        /\ pool[Handle].marked
        /\ \A s \in Closure(Cell_Refs(pool[Handle].cells[1]), TRUE) : pool[s].marked

\* C18: in Mark_Root_Series a managed API handle whose owner frame context
\* is accessible is marked and the value of its cell is marked deeply; one
\* whose owner is inaccessible and flagged as failed is freed without a
\* report; one whose owner is inaccessible and not flagged as failed makes
\* the GC panic.
C18_HandleByOwner == Handle_Marked_Freed_Or_Leaked /\ []Handle_Value_Marked_Deep

\* the handle of a running frame holds a block with a file string: the
\* sweep starts with the handle, the block and the file string marked
C18_Witness ==
    /\ gc.pc = "Sweep_Series"
    /\ Live_Handle
    /\ pool[Handle].marked
    /\ pool[Handle].cells[1].node = BlockY
    /\ pool[BlockY].file_line
    /\ pool[BlockY].marked
    /\ pool[Text].marked

\* the handle of a frame that ended without a failure is reported
C18_Witness_Leak ==
    /\ gc.pc = "panic"
    /\ Live_Handle
    /\ Handle_Owner.inaccessible
    /\ ~Handle_Owner.failed

\* the sweep of a Recycle_Core that was given a sweeplist returns
Sweeplist_Step ==
    /\ gc.pc = "Sweep_Series"
    /\ gc.sweeplist # NULL
    /\ gc'.pc \in {"idle", "shutdown"}

\* the nodes an ordinary sweep would free
Unmarked_Nodes == {s \in GCNodes : ~pool[s].free /\ pool[s].managed /\ ~pool[s].marked}

\* C26: a Recycle_Core given a sweeplist frees nothing in its sweep, fills the
\* sweeplist with exactly the managed nodes the mark phase left unmarked,
\* returns their count and clears the mark of every marked node
C26_SweeplistHoldsUnmarked ==
    [][Sweeplist_Step =>
          /\ \A s \in GCNodes : pool'[s].free = pool[s].free
          /\ Range(recycled'.sweeplist) = Unmarked_Nodes
          /\ recycled'.count = Cardinality(Unmarked_Nodes)
          /\ \A s \in GCNodes : ~pool'[s].marked]_vars

\* what the code does: the sweeplist stays empty and 0 is returned, whatever
\* the mark phase left unmarked
Sweeplist_Stays_Empty ==
    [][Sweeplist_Step =>
          /\ \A s \in GCNodes : pool'[s].free = pool[s].free
          /\ recycled'.sweeplist = <<>>
          /\ recycled'.count = 0
          /\ \A s \in GCNodes : ~pool'[s].marked]_vars

\* a Recycle_Core given a sweeplist has returned while a managed node that no
\* root reaches is in the pool
Sweeplist_Misses_Node ==
    /\ gc.pc = "idle"
    /\ recycled.done
    /\ recycled.sweeplist = <<>>
    /\ recycled.count = 0
    /\ \E s \in GCNodes : ~pool[s].free /\ pool[s].managed /\ s \notin Reachable

\* the call returned at one of the two checks made on entry
Returned_Early ==
    /\ recycled'.count = 0
    /\ "SIG_RECYCLE" \in Eval_Signals'
    /\ UNCHANGED <<pool, GC_Mark_Stack, gc>>

\* C27: a Recycle_Core entered while the collector is disabled and shutdown is
\* false, or entered while a cycle is in progress, returns 0, sets the
\* SIG_RECYCLE signal and changes no node; entered with shutdown true while
\* the collector is disabled (and no cycle is in progress) it starts a cycle
C27_DisabledOrReentered ==
    [][\A shutdown \in BOOLEAN, sweeplist \in {NULL, Sweeplist} :
          Recycle_Core(shutdown, sweeplist) =>
             /\ (GC_Recycling \/ (~shutdown /\ GC_Disabled)) => Returned_Early
             /\ (~GC_Recycling /\ shutdown) =>
                   /\ gc'.pc = "Mark_Root_Series"
                   /\ gc'.shutdown
                   /\ Eval_Signals' = Eval_Signals]_vars

\* a call has returned early, and the shutdown cycle has run to its end with
\* the collector disabled
C27_Witness ==
    /\ "SIG_RECYCLE" \in Eval_Signals
    /\ gc.pc = "shutdown"
    /\ GC_Disabled

\* the arrays the marking has yet to reach, counted twice, and the arrays
\* that wait on the mark stack: no step of the loop of
\* Propagate_All_GC_Marks leaves this number as it was
Marking_Left ==
    2 * Cardinality({s \in GCNodes : /\ ~pool[s].free
                                     /\ IS_SER_ARRAY(pool, s)
                                     /\ ~pool[s].marked})
        + Len(GC_Mark_Stack)

\* C28: every array of the mark stack is marked and is there once; an array
\* that comes onto the stack was unmarked before the step and is marked after
\* it; every iteration of Propagate_All_GC_Marks brings the marking nearer
\* its end, whatever the arrays refer to, and the loop is left with the stack
\* empty; no assert(not in_mark) fails
C28_MarkStack ==
    /\ [](/\ \A i \in DOMAIN GC_Mark_Stack :
                /\ ~pool[GC_Mark_Stack[i]].free
                /\ pool[GC_Mark_Stack[i]].marked
                /\ \A j \in DOMAIN GC_Mark_Stack :
                      i # j => GC_Mark_Stack[i] # GC_Mark_Stack[j]
          /\ gc.pc = "panic" => gc.ret # "in_mark")
    /\ [][/\ \A a \in Range(GC_Mark_Stack') \ Range(GC_Mark_Stack) :
                ~pool[a].marked /\ pool'[a].marked
          /\ (gc.pc = "Propagate_All_GC_Marks" /\ gc'.pc # "panic") =>
                /\ Marking_Left' < Marking_Left
                /\ gc'.pc # "Propagate_All_GC_Marks" => GC_Mark_Stack' = <<>>]_vars

\* an array with a cell that refers to the array itself is on the mark stack
C28_Witness ==
    /\ gc.pc = "Propagate_All_GC_Marks"
    /\ \E i \in DOMAIN GC_Mark_Stack :
          \E k \in DOMAIN pool[GC_Mark_Stack[i]].cells :
             pool[GC_Mark_Stack[i]].cells[k].node = GC_Mark_Stack[i]

(***************************************************************************)
(* Properties of the paramlist builder                                     *)
(***************************************************************************)
Returned == mk.pc \in {"returned", "made"}

\* the parameter cells of the paramlist, without the archetype
Params(p) == SubSeq(p.cells, 2, Len(p.cells))

\* the typesets the spec loop and the synthesis left, in the order of the
\* pushes, as the sequence of their spellings
Subsequence(s, t) ==
    \E f \in [1..Len(s) -> 1..Len(t)] :
       /\ \A i \in 1..Len(s) : s[i] = t[f[i]]
       /\ \A i, j \in 1..Len(s) : i < j => f[i] < f[j]

\* the spellings of the any-word items of the spec, in spec order
Spec_Spellings(spec) ==
    LET words == SelectSeq(spec, LAMBDA item : ANY_WORD(item))
    IN  [i \in 1..Len(words) |-> words[i].spelling]

\* the spellings of the parameters that are neither RETURN nor LEAVE class
Other_Spellings(p) ==
    LET others == SelectSeq(Params(p), LAMBDA c :
                      VAL_PARAM_CLASS(c) \notin {"PARAM_CLASS_RETURN", "PARAM_CLASS_LEAVE"})
    IN  [i \in 1..Len(others) |-> VAL_PARAM_SPELLING(others[i])]

\* C9: every paramlist Make_Paramlist_Managed_May_Fail returns has length =
\* (number of parameter cells) + 1, its slot 0 is an action archetype whose
\* paramlist pointer is the paramlist itself with no binding, and its facade
\* link is the paramlist itself.
C9_ParamlistShape ==
    Returned =>
        /\ paramlist.len = Len(Params(paramlist)) + 1
        /\ \A i \in 1..Len(Params(paramlist)) : IS_TYPESET(Params(paramlist)[i])
        /\ paramlist.cells[1].t = "FUNCTION"
        /\ paramlist.cells[1].paramlist = paramlist.node
        /\ paramlist.cells[1].binding = UNBOUND
        /\ paramlist.facade = paramlist.node
        /\ paramlist.node # NULL

\* a release build omits the fake return the spec named, and two more
\* parameters are kept
C9_Witness ==
    /\ mk.pc = "made"
    /\ mk.ndebug
    /\ "MKF_FAKE_RETURN" \in mk.flags
    /\ mk.definitional_return_dsp # 0
    /\ Len(Params(paramlist)) = 2
    /\ paramlist.len = 3

\* C10: whenever the returned paramlist carries the RETURN flag, its last
\* parameter has class RETURN and its symbol is return (VAL_PARAM_SYM, the
\* symbol of the canon of its spelling, as Returner_Dispatcher asserts it),
\* no other parameter has class RETURN, and the other parameters keep
\* their relative spec order.
C10_ReturnIsLast ==
    Returned /\ "FUNC_FLAG_RETURN" \in paramlist.cells[1].flags =>
        LET params == Params(paramlist)
            n == Len(params)
        IN  /\ n >= 1
            /\ VAL_PARAM_CLASS(params[n]) = "PARAM_CLASS_RETURN"
            /\ VAL_PARAM_SYM(params[n]) = "return"
            /\ \A i \in 1..(n - 1) : VAL_PARAM_CLASS(params[i]) # "PARAM_CLASS_RETURN"
            /\ Subsequence(Other_Spellings(paramlist), Spec_Spellings(mk.spec))

\* the spec's return: is followed by another parameter in the spec, and is
\* moved to the tail of the paramlist as the RETURN
C10_Witness ==
    /\ Returned
    /\ "FUNC_FLAG_RETURN" \in paramlist.cells[1].flags
    /\ mk.definitional_return_dsp # 0
    /\ Len(mk.spec) >= 2
    /\ mk.spec[1].type = "SET_WORD"
    /\ VAL_PARAM_SPELLING(Params(paramlist)[Len(Params(paramlist))]) = "Return"
    /\ Len(Params(paramlist)) >= 2

\* the RETURN is synthesized at the tail, after the synthesized LEAVE
C10_Witness_Synthesized ==
    /\ Returned
    /\ "FUNC_FLAG_RETURN" \in paramlist.cells[1].flags
    /\ "FUNC_FLAG_LEAVE" \in paramlist.cells[1].flags
    /\ Len(Params(paramlist)) = 3

\* two typesets of the stack share a canon
Has_Duplicate(m) ==
    LET srcs == Stack_Typesets(m)
    IN  \E i, j \in 1..Len(srcs) :
           /\ i < j
           /\ VAL_PARAM_CANON(m.ds[srcs[i]]) = VAL_PARAM_CANON(m.ds[srcs[j]])

\* C11: when two parameters share a canon the paramlist builder raises the
\* duplicate-variable error, and when the error is raised no canon has a
\* bind index left; without a duplicate the binder is empty afterwards too.
\* (A debug build that stops at the assert on MKF_RETURN raises nothing.)
C11_DuplicateFailsBinderEmpty ==
    [][mk.pc = "copy" /\ mk'.pc # "asserted" =>
          /\ mk'.binder = {}
          /\ Has_Duplicate(mk) <=> (mk'.pc = "failed" /\ mk'.error = "Error_Dup_Vars")
          /\ ~Has_Duplicate(mk) <=> mk'.pc = "returned"]_vars

\* the error was raised for a spec with three typesets, two of one canon in
\* different letter case
C11_Witness ==
    /\ mk.pc = "failed"
    /\ mk.error = "Error_Dup_Vars"
    /\ mk.binder = {}
    /\ Len(mk.ds) = 12
    /\ \E i, j \in {4, 7, 10} :
           /\ mk.ds[i].spelling # mk.ds[j].spelling
           /\ VAL_PARAM_CANON(mk.ds[i]) = VAL_PARAM_CANON(mk.ds[j])

\* the builder is in <with> mode when it reaches item i: the last tag before
\* i is <with> and no refinement came after that tag
With_At(spec, i) ==
    \E k \in 1..(i - 1) :
       /\ spec[k] = Item("TAG", "with")
       /\ \A l \in (k + 1)..(i - 1) : spec[l].type \notin {"TAG", "REFINEMENT"}

\* item i is a word that gets a typeset of its own on the data stack
Gets_Slot(spec, i) ==
    ANY_WORD(spec[i]) /\ ~(With_At(spec, i) /\ spec[i].type = "WORD")

\* the strings of the spec that come before every word that gets a slot and
\* are not in <with> mode
Head_Strings(spec) ==
    { i \in 1..Len(spec) :
         /\ spec[i].type = "STRING"
         /\ ~With_At(spec, i)
         /\ \A j \in 1..(i - 1) : ~Gets_Slot(spec, j) }

First_String(spec) ==
    CHOOSE i \in 1..Len(spec) :
       /\ spec[i].type = "STRING"
       /\ \A j \in 1..(i - 1) : spec[j].type # "STRING"

Last_Of(S) == CHOOSE i \in S : \A j \in S : j <= i

\* C29 as stated: the first string appearing in a spec passed to
\* Make_Paramlist_Managed_May_Fail becomes the description field of the
\* action's meta object.
C29_FirstStringIsDescription ==
    Returned /\ (\E i \in 1..Len(mk.spec) : mk.spec[i].type = "STRING") =>
       /\ ~paramlist.meta.null
       /\ paramlist.meta.description =
             Init_String(mk.spec[First_String(mk.spec)].spelling)

\* C29 amended: a string becomes the description field of the meta object
\* only if it appears before the first word that gets a paramlist slot and
\* outside <with> mode, and of several such strings the last one is the
\* description; with no such string the description is void or there is no
\* meta object.
C29_HeadStringIsDescription ==
    Returned =>
       IF Head_Strings(mk.spec) = {}
       THEN ~paramlist.meta.null => paramlist.meta.description = Init_Void
       ELSE /\ ~paramlist.meta.null
            /\ paramlist.meta.description =
                  Init_String(mk.spec[Last_Of(Head_Strings(mk.spec))].spelling)

\* a spec of two strings and a parameter with a note was built: the second
\* string is the description
C29_Witness ==
    /\ Returned
    /\ Len(mk.spec) = 3
    /\ mk.spec[1] = Item("STRING", "")
    /\ mk.spec[2] = Item("STRING", "doc")
    /\ mk.spec[3].type = "WORD"
    /\ ~paramlist.meta.null
    /\ paramlist.meta.description = Init_String("doc")

\* one iteration of the spec loop over an any-word item in <with> mode that
\* is no refinement (a refinement ends the mode)
With_Word_Step ==
    /\ mk.pc = "scan"
    /\ mk.value <= Len(mk.spec)
    /\ mk.mode = "SPEC_MODE_WITH"
    /\ mk.spec[mk.value].type \in {"WORD", "SET_WORD"}
    /\ mk'.value = mk.value + 1

\* the typesets on the data stack: each becomes a slot of the paramlist
Typeset_Cells(ds) == SelectSeq(ds, IS_TYPESET)

\* C30 as stated: every word that appears in a spec while the builder is in
\* <with> mode produces no paramlist slot, whatever the word's form (word or
\* set-word): the iteration pushes no typeset.
C30_WithWordsNoSlot ==
    [][With_Word_Step => Typeset_Cells(mk'.ds) = Typeset_Cells(mk.ds)]_vars

\* C30 amended: a word in <with> mode produces no paramlist slot unless it
\* is a set-word; a set-word in <with> mode is tolerated as a pure local and
\* pushes one PARAM_CLASS_LOCAL typeset of its spelling.
C30_WithWordsNoSlotButSetWords ==
    [][With_Word_Step =>
          LET item == mk.spec[mk.value]
          IN  /\ item.type = "WORD" => Typeset_Cells(mk'.ds) = Typeset_Cells(mk.ds)
              /\ item.type = "SET_WORD" /\ mk'.pc = "scan" =>
                    /\ Typeset_Cells(mk'.ds) =
                          Append(Typeset_Cells(mk.ds),
                                 Init_Typeset(Default_Bits, item.spelling,
                                              "PARAM_CLASS_LOCAL"))
                    /\ DS_TOP(mk'.ds) = Init_Typeset(Default_Bits, item.spelling,
                                                     "PARAM_CLASS_LOCAL")]_vars

\* a word and a set-word were both scanned in <with> mode and only the
\* set-word left a typeset
C30_Witness ==
    /\ mk.pc = "scan"
    /\ mk.mode = "SPEC_MODE_WITH"
    /\ mk.value = 4
    /\ mk.spec[1] = Item("TAG", "with")
    /\ mk.spec[2].type = "WORD"
    /\ mk.spec[3].type = "SET_WORD"
    /\ Len(Typeset_Cells(mk.ds)) = 1
    /\ VAL_PARAM_SPELLING(DS_TOP(mk.ds)) = mk.spec[3].spelling

\* one iteration of the loop over the spec block
Scan_Step ==
    /\ mk.pc = "scan"
    /\ mk.value <= Len(mk.spec)
    /\ mk'.value = mk.value + 1

\* C31: the parsing mode is a state machine over NORMAL, LOCAL and WITH.
\* With MKF_KEYWORDS a top-level <local> or <with> tag enters LOCAL or WITH
\* from any mode, a refinement returns the mode to NORMAL, no other item
\* changes the mode, a plain word in LOCAL mode yields a LOCAL class
\* parameter, and in LOCAL or WITH mode a type block, get-word, lit-word or
\* issue raises the bad-spec error.
C31_ModeMachine ==
    [][Scan_Step =>
          LET item == mk.spec[mk.value]
              keyword == item.type = "TAG" /\ "MKF_KEYWORDS" \in mk.flags
          IN  /\ keyword /\ item.spelling = "local" =>
                    mk'.mode = "SPEC_MODE_LOCAL" /\ mk'.pc = "scan"
              /\ keyword /\ item.spelling = "with" =>
                    mk'.mode = "SPEC_MODE_WITH" /\ mk'.pc = "scan"
              /\ item.type = "REFINEMENT" /\ mk'.pc = "scan" =>
                    mk'.mode = "SPEC_MODE_NORMAL"
              /\ ~keyword /\ item.type # "REFINEMENT" => mk'.mode = mk.mode
              /\ mk.mode = "SPEC_MODE_LOCAL" /\ item.type = "WORD" /\ mk'.pc = "scan" =>
                    /\ IS_TYPESET(DS_TOP(mk'.ds))
                    /\ VAL_PARAM_SPELLING(DS_TOP(mk'.ds)) = item.spelling
                    /\ VAL_PARAM_CLASS(DS_TOP(mk'.ds)) = "PARAM_CLASS_LOCAL"
              /\ /\ mk.mode \in {"SPEC_MODE_LOCAL", "SPEC_MODE_WITH"}
                 /\ item.type \in {"BLOCK", "GET_WORD", "LIT_WORD", "ISSUE"}
                 => mk'.pc = "failed" /\ mk'.error = "Error_Bad_Func_Def"]_vars

\* <with> then <local> then an item that LOCAL mode refuses: the second tag
\* took the mode from WITH to LOCAL and the third item failed
C31_Witness ==
    /\ mk.pc = "failed"
    /\ mk.error = "Error_Bad_Func_Def"
    /\ mk.value = 4
    /\ mk.spec[1] = Item("TAG", "with")
    /\ mk.spec[2] = Item("TAG", "local")
    /\ mk.spec[3].type \in {"GET_WORD", "LIT_WORD", "ISSUE"}
    /\ mk.mode = "SPEC_MODE_LOCAL"

\* the spec names return as a word that is no set-word
Names_Return_Otherwise(spec) ==
    \E i \in 1..Len(spec) :
       /\ ANY_WORD(spec[i])
       /\ spec[i].type # "SET_WORD"
       /\ Canon_Spelling(spec[i].spelling) = "return"

\* C32: if MKF_RETURN is requested (and so MKF_LEAVE is not) but the spec
\* names return as anything other than a set-word, the paramlist has no
\* FUNC_FLAG_RETURN and no PARAM_CLASS_RETURN parameter, and
\* Make_Interpreted_Function_May_Fail does not install Returner_Dispatcher.
C32_ReturnCancelled ==
    /\ mk.pc = "made"
    /\ "MKF_RETURN" \in mk.mkf_flags
    /\ "MKF_LEAVE" \notin mk.mkf_flags
    /\ Names_Return_Otherwise(mk.spec)
    => /\ "FUNC_FLAG_RETURN" \notin paramlist.cells[1].flags
       /\ \A i \in 2..Len(paramlist.cells) :
             VAL_PARAM_CLASS(paramlist.cells[i]) # "PARAM_CLASS_RETURN"
       /\ mk.dispatcher # "Returner_Dispatcher"

\* a function was made with MKF_RETURN from a spec whose return is a
\* refinement, and its body is not empty
C32_Witness ==
    /\ mk.pc = "made"
    /\ "MKF_RETURN" \in mk.mkf_flags
    /\ "MKF_LEAVE" \notin mk.mkf_flags
    /\ \E i \in 1..Len(mk.spec) : mk.spec[i] = Item("REFINEMENT", "return")
    /\ ~mk.code_empty
    /\ mk.dispatcher = "Unchecked_Dispatcher"
    /\ Len(paramlist.cells) >= 2

\* the spellings of all the parameters of the paramlist, in slot order
Param_Spellings(p) == [i \in 1..Len(Params(p)) |-> VAL_PARAM_SPELLING(Params(p)[i])]

\* the assert of the copy loop failed: the slot count is known by then
Copy_Asserted == mk.pc = "asserted" /\ mk.num_slots > 0

\* C33: for flags containing none of RETURN, FAKE_RETURN and LEAVE, a spec
\* containing return: yields a paramlist whose parameters are all in spec
\* order with return as an ordinary LOCAL, and the assertion that MKF_RETURN
\* is set when the return slot is copied is never violated.
C33_ReturnStaysInPlace ==
    /\ mk.mkf_flags \cap {"MKF_RETURN", "MKF_FAKE_RETURN", "MKF_LEAVE"} = {}
    /\ \E i \in 1..Len(mk.spec) :
          /\ mk.spec[i].type = "SET_WORD"
          /\ Canon_Spelling(mk.spec[i].spelling) = "return"
    => /\ ~Copy_Asserted
       /\ Returned =>
             /\ Subsequence(Param_Spellings(paramlist), Spec_Spellings(mk.spec))
             /\ \A i \in 2..Len(paramlist.cells) :
                   Canon_Spelling(VAL_PARAM_SPELLING(paramlist.cells[i])) = "return"
                      => VAL_PARAM_CLASS(paramlist.cells[i]) = "PARAM_CLASS_LOCAL"

\* what the code does instead, in a release build: return: is a LOCAL but it
\* is the last parameter wherever the spec has it
Return_Moved_Without_Flag ==
    /\ Returned
    /\ mk.mkf_flags \cap {"MKF_RETURN", "MKF_FAKE_RETURN", "MKF_LEAVE"} = {}
    /\ mk.definitional_return_dsp # 0
    => /\ mk.ndebug
       /\ VAL_PARAM_CLASS(paramlist.cells[Len(paramlist.cells)]) = "PARAM_CLASS_LOCAL"
       /\ Canon_Spelling(VAL_PARAM_SPELLING(paramlist.cells[Len(paramlist.cells)])) = "return"

Arg_Classes ==
    ParamClasses \ {"PARAM_CLASS_LOCAL", "PARAM_CLASS_RETURN", "PARAM_CLASS_LEAVE"}

\* the class of the first parameter of the paramlist that satisfies Decides,
\* "" when there is none
First_Class(p, Decides(_)) ==
    LET S == { i \in 2..Len(p.cells) : Decides(p.cells[i]) }
    IN  IF S = {} THEN ""
        ELSE VAL_PARAM_CLASS(p.cells[CHOOSE i \in S : \A j \in S : i <= j])

\* neither hidden nor a local, return or leave
Visible_Arg(param) ==
    ~GET_TYPESET_FLAG_HIDDEN(param) /\ VAL_PARAM_CLASS(param) \in Arg_Classes

\* a refinement, hidden or not, or a visible argument
Refinement_Or_Visible_Arg(param) ==
    VAL_PARAM_CLASS(param) = "PARAM_CLASS_REFINEMENT" \/ Visible_Arg(param)

Lookback_Flags_By(Decides(_)) ==
    mk.pc = "made" =>
       LET flags == paramlist.cells[1].flags
           class == First_Class(paramlist, Decides)
       IN  /\ "FUNC_FLAG_DEFERS_LOOKBACK" \in flags <=> class = "PARAM_CLASS_NORMAL"
           /\ "FUNC_FLAG_QUOTES_FIRST_ARG" \in flags
                 <=> class \in {"PARAM_CLASS_HARD_QUOTE", "PARAM_CLASS_SOFT_QUOTE"}
           /\ ~({"FUNC_FLAG_DEFERS_LOOKBACK", "FUNC_FLAG_QUOTES_FIRST_ARG"}
                   \subseteq flags)

\* C34 as stated: Make_Function sets DEFERS_LOOKBACK iff the first parameter
\* that is neither hidden nor a local/return/leave is of class normal, sets
\* QUOTES_FIRST_ARG iff that parameter is hard- or soft-quoted, and never
\* sets both.
C34_FirstVisibleArg == Lookback_Flags_By(Visible_Arg)

\* C34 amended: the parameter that decides is the first one that is a
\* refinement, hidden or not, or that is neither hidden nor a
\* local/return/leave.
C34_FirstRefinementOrVisibleArg == Lookback_Flags_By(Refinement_Or_Visible_Arg)

\* a function was made whose first parameter is a hidden refinement and whose
\* second is a visible normal argument: no flag is set
C34_Witness ==
    /\ mk.pc = "made"
    /\ Len(paramlist.cells) = 3
    /\ paramlist.cells[2] = Param_Cell("PARAM_CLASS_REFINEMENT", TRUE)
    /\ paramlist.cells[3] = Param_Cell("PARAM_CLASS_NORMAL", FALSE)
    /\ "FUNC_FLAG_DEFERS_LOOKBACK" \notin paramlist.cells[1].flags

\* the parameters of class RETURN of the made function
Return_Params == { i \in 2..Len(paramlist.cells) :
                      VAL_PARAM_CLASS(paramlist.cells[i]) = "PARAM_CLASS_RETURN" }

\* C35: the dispatcher Make_Interpreted_Function_May_Fail installs is
\* determined by (body empty, INVISIBLE, RETURN, LEAVE, return typeset admits
\* void).  INVISIBLE (the return typeset has no bits) gives Commenter for an
\* empty body and Elider otherwise; else RETURN gives Returner for a
\* non-empty body, and for an empty body Returner if the return typeset
\* excludes void and Noop if it admits void; else LEAVE gives Voider (Noop if
\* the body is empty); else Unchecked (Noop if the body is empty).  Noop or
\* Commenter is never installed on a function with a non-empty body.
C35_DispatcherChoice ==
    mk.pc = "made" =>
       LET flags == paramlist.cells[1].flags
           invisible == "FUNC_FLAG_INVISIBLE" \in flags
           admits_void == \E i \in Return_Params :
                             TYPE_CHECK(paramlist.cells[i], "MAX_VOID")
       IN  /\ invisible <=> \E i \in Return_Params : paramlist.cells[i].bits = {}
           /\ mk.dispatcher =
                 IF invisible
                    THEN IF mk.code_empty THEN "Commenter_Dispatcher"
                         ELSE "Elider_Dispatcher"
                 ELSE IF "FUNC_FLAG_RETURN" \in flags
                    THEN IF ~mk.code_empty \/ ~admits_void
                            THEN "Returner_Dispatcher" ELSE "Noop_Dispatcher"
                 ELSE IF mk.code_empty THEN "Noop_Dispatcher"
                 ELSE IF "FUNC_FLAG_LEAVE" \in flags THEN "Voider_Dispatcher"
                 ELSE "Unchecked_Dispatcher"
           /\ ~mk.code_empty =>
                 mk.dispatcher \notin {"Noop_Dispatcher", "Commenter_Dispatcher"}

\* a function with an empty body and a return typeset that excludes void
\* was made: it got the Returner
C35_Witness ==
    /\ mk.pc = "made"
    /\ mk.code_empty
    /\ "FUNC_FLAG_RETURN" \in paramlist.cells[1].flags
    /\ "FUNC_FLAG_INVISIBLE" \notin paramlist.cells[1].flags
    /\ mk.dispatcher = "Returner_Dispatcher"


\* the typeset a type block annotates: the one on top of the stack, or the
\* one of the triple whose notes are on top
Annotated(ds) == IF IS_TYPESET(DS_TOP(ds)) THEN DS_TOP(ds) ELSE ds[Len(ds) - 2]

\* an iteration of the spec loop over a type block that admits <opt> raised
\* the refinement-<opt> error
Opt_Rejected ==
    /\ Scan_Step
    /\ mk.spec[mk.value] = Item("BLOCK", "<opt>")
    /\ mk'.error = "Error_Refinement_Arg_Opt"

\* C36: the refinement-<opt> rejection applies only to a type block that
\* annotates a refinement or an argument of a refinement: a type block
\* admitting <opt> on a parameter before any refinement is accepted, and the
\* type block of a return: set-word admitting <opt> is accepted wherever it
\* appears in the spec, including after a refinement.
C36_OptRejectedOnRefinementsOnly ==
    [][Opt_Rejected =>
          /\ mk.refinement_seen
          /\ VAL_PARAM_CLASS(Annotated(mk.ds)) \in
                {"PARAM_CLASS_REFINEMENT", "PARAM_CLASS_NORMAL", "PARAM_CLASS_TIGHT",
                 "PARAM_CLASS_HARD_QUOTE", "PARAM_CLASS_SOFT_QUOTE"}]_vars

\* what the code does: once a refinement was seen, a type block admitting
\* <opt> is rejected whatever it annotates, and before that none is
Opt_Rejected_After_Any_Refinement ==
    [][Scan_Step /\ mk.spec[mk.value] = Item("BLOCK", "<opt>")
          /\ mk.mode = "SPEC_MODE_NORMAL" /\ IS_TYPESET(DS_TOP(mk.ds))
          => (mk'.error = "Error_Refinement_Arg_Opt" <=> mk.refinement_seen)]_vars

\* return: [<opt>] after a refinement was rejected
Return_Opt_Rejected ==
    /\ mk.pc = "failed"
    /\ mk.error = "Error_Refinement_Arg_Opt"
    /\ IS_TYPESET(DS_TOP(mk.ds))
    /\ VAL_PARAM_CLASS(DS_TOP(mk.ds)) = "PARAM_CLASS_LOCAL"
    /\ VAL_PARAM_CANON(DS_TOP(mk.ds)) = "return"

\* the tags a type block recognises
Recognised_Block_Tags == {"<end>", "<opt>", "<...>", "<skip>", "<blank>"}

\* the stack position of the typeset a type block annotates
Annotated_At(ds) == IF IS_TYPESET(DS_TOP(ds)) THEN Len(ds) ELSE Len(ds) - 2

\* the top-level half of C37: a tag of a function spec that is no keyword
\* raises an error
Unknown_Spec_Tag_Fails ==
    [][Scan_Step /\ mk.spec[mk.value].type = "TAG"
          /\ mk.spec[mk.value].spelling \notin {"with", "local"}
          => mk'.pc = "failed"]_vars

\* the <skip> part of C37: <skip> in a type block is accepted only on a
\* hard-quoted parameter, where it also sets the endable bit
Skip_On_Hard_Quote_Only ==
    [][Scan_Step /\ mk.spec[mk.value] = Item("BLOCK", "<skip>") /\ mk'.pc # "failed"
          => /\ VAL_PARAM_CLASS(Annotated(mk.ds)) = "PARAM_CLASS_HARD_QUOTE"
             /\ {"TS_SKIPPABLE", "TS_ENDABLE"} \subseteq
                    mk'.ds[Annotated_At(mk.ds)].bits]_vars

\* C37: a tag that is not one of the recognised keywords raises an error
\* instead of being accepted, both at the top level of a function spec and
\* inside a type block, where only <end>, <opt>, <...>, <skip> and <blank>
\* are recognised and <skip> is accepted only on a hard-quoted parameter,
\* where it also sets the endable bit.
C37_UnknownTagFails ==
    [][Scan_Step =>
          /\ mk.spec[mk.value].type = "TAG"
                /\ mk.spec[mk.value].spelling \notin {"with", "local"}
                => mk'.pc = "failed"
          /\ mk.spec[mk.value].type = "BLOCK"
                /\ mk.spec[mk.value].spelling \in Block_Tags \ Recognised_Block_Tags
                => mk'.pc = "failed"
          /\ mk.spec[mk.value] = Item("BLOCK", "<skip>") /\ mk'.pc # "failed"
                => /\ VAL_PARAM_CLASS(Annotated(mk.ds)) = "PARAM_CLASS_HARD_QUOTE"
                   /\ "TS_ENDABLE" \in mk'.ds[Annotated_At(mk.ds)].bits]_vars

\* what the code does with an unknown tag of a type block: nothing, so the
\* block is taken wherever an empty type block would be and sets no bit
Unknown_Block_Tag_Ignored ==
    [][Scan_Step /\ mk.spec[mk.value] = Item("BLOCK", "<custom>")
          /\ mk.mode = "SPEC_MODE_NORMAL" /\ IS_TYPESET(DS_TOP(mk.ds))
          => /\ mk'.pc = "scan"
             /\ mk'.ds[Annotated_At(mk.ds)].bits = {}]_vars

\* a parameter whose type block was an unknown tag came out of the builder
Unknown_Block_Tag_Accepted ==
    /\ mk.pc = "returned"
    /\ Len(mk.spec) = 2
    /\ mk.spec[1] = Item("WORD", "x")
    /\ mk.spec[2] = Item("BLOCK", "<custom>")
    /\ Len(paramlist.cells) = 2
    /\ paramlist.cells[2].bits = {}

\* the set operation a verb names
Set_Operation(verb, a, b) ==
    IF verb = "SYM_UNION" THEN a \cup b
    ELSE IF verb = "SYM_INTERSECT" THEN a \cap b
    ELSE (a \cup b) \ (a \cap b)

Set_Verbs == {"SYM_UNION", "SYM_INTERSECT", "SYM_DIFFERENCE"}

\* C38: UNION, INTERSECT and DIFFERENCE of a typeset with a DATATYPE!
\* argument treat the argument as the singleton typeset of the kind the
\* datatype denotes; with a typeset argument they are the bitwise OR, AND and
\* XOR of the two sets; any other argument raises an error and leaves the
\* typeset unchanged.
C38_SetOperations ==
    quo.called /\ quo.verb \in Set_Verbs =>
        IF IS_DATATYPE(quo.arg)
          THEN /\ ~quo.result.failed
               /\ quo.result.val.bits =
                      Set_Operation(quo.verb, quo.val.bits, {VAL_TYPE_KIND(quo.arg)})
        ELSE IF IS_TYPESET(quo.arg)
          THEN /\ ~quo.result.failed
               /\ quo.result.val.bits =
                      Set_Operation(quo.verb, quo.val.bits, quo.arg.bits)
        ELSE /\ quo.result.failed
             /\ quo.result.val = quo.val

\* what the code does: a DATATYPE! argument stands for the singleton of
\* DATATYPE!, whatever kind it denotes; the other two cases are as C38 says
Set_Operations_With_Datatype_Bit ==
    quo.called /\ quo.verb \in Set_Verbs =>
        IF IS_DATATYPE(quo.arg)
          THEN /\ ~quo.result.failed
               /\ quo.result.val.bits =
                      Set_Operation(quo.verb, quo.val.bits, {"DATATYPE"})
        ELSE IF IS_TYPESET(quo.arg)
          THEN /\ ~quo.result.failed
               /\ quo.result.val.bits =
                      Set_Operation(quo.verb, quo.val.bits, quo.arg.bits)
        ELSE /\ quo.result.failed
             /\ quo.result.val = quo.val

\* the union of the empty typeset with integer! has the DATATYPE bit and
\* not the INTEGER bit
Union_With_Integer_Sets_Datatype ==
    /\ quo.called
    /\ quo.verb = "SYM_UNION"
    /\ quo.val = Typeset_Value({})
    /\ quo.arg = Datatype_Value("INTEGER")
    /\ quo.result.out = Typeset_Value({"DATATYPE"})

\* C39: for a quoted first argument of depth d >= 1 the Quoted generic
\* handler checks the unquoted kind against parameter 1 and fails with an
\* argument-type error before any dispatch; otherwise it dispatches on the
\* fully unquoted value and pushes the integer d on the data stack exactly
\* when the verb is one of ADD, SUBTRACT, MULTIPLY, DIVIDE, FIND, COPY, SKIP,
\* AT, APPEND, CHANGE, INSERT; for every other verb, REFLECT included, the
\* data stack is left as it was.
C39_QuotedGeneric ==
    LET d == VAL_NUM_QUOTES(quo.quoted)
        plain == Plain_Cell(CELL_KIND_UNESCAPED(quo.quoted), quo.quoted.data)
    IN  quo.called /\ d >= 1 =>
          IF CELL_KIND_UNESCAPED(quo.quoted) \notin quo.param.bits
            THEN /\ quo.result.failed
                 /\ quo.result.error = "Error_Arg_Type"
                 /\ quo.result.r = No_Dispatch
                 /\ quo.result.ds = quo.ds
            ELSE /\ ~quo.result.failed
                 /\ quo.result.r = [kind |-> plain.kind_byte, verb |-> quo.verb,
                                    arg |-> plain]
                 /\ IF quo.verb \in {"SYM_ADD", "SYM_SUBTRACT", "SYM_MULTIPLY",
                                     "SYM_DIVIDE", "SYM_FIND", "SYM_COPY", "SYM_SKIP",
                                     "SYM_AT", "SYM_APPEND", "SYM_CHANGE", "SYM_INSERT"}
                      THEN quo.result.ds = quo.ds \o <<Plain_Cell(1, d)>>
                      ELSE quo.result.ds = quo.ds

\* APPEND on a word quoted five times, held in a QUOTED! cell, ran the
\* handler of WORD! and pushed 5 above the caller's value
C39_Witness ==
    /\ quo.called
    /\ quo.verb = "SYM_APPEND"
    /\ KIND_BYTE(quo.quoted) = REB_QUOTED
    /\ quo.quoted.quoted_depth = 5
    /\ quo.result.r.kind = 2
    /\ Len(quo.ds) = 1
    /\ quo.result.ds = <<Init_Integer(0), Init_Integer(5)>>

\* the second argument of pair arithmetic as a pair: a number n is (n, n)
As_Pair(arg) == IF arg.t = "PAIR" THEN <<arg.x, arg.y>> ELSE <<arg.dec, arg.dec>>

\* C40: pair arithmetic is component-wise: ADD yields (x1+x2, y1+y2),
\* SUBTRACT yields (x1-x2, y1-y2), MULTIPLY yields (x1*x2, y1*y2), DIVIDE
\* and REMAINDER raise the zero-divide error when x2 or y2 is 0, and an
\* integer or decimal second argument n is treated as the pair (n, n).
C40_ComponentWise ==
    LET x1 == quo.val.x
        y1 == quo.val.y
        x2 == As_Pair(quo.arg)[1]
        y2 == As_Pair(quo.arg)[2]
        out == quo.result.out
    IN  quo.called /\ quo.arg.t \in {"PAIR", "INTEGER", "DECIMAL"} =>
          /\ quo.verb = "SYM_ADD" =>
                ~quo.result.failed /\ out.x = Dec_Add(x1, x2) /\ out.y = Dec_Add(y1, y2)
          /\ quo.verb = "SYM_SUBTRACT" =>
                /\ ~quo.result.failed
                /\ out.x = Dec_Subtract(x1, x2)
                /\ out.y = Dec_Subtract(y1, y2)
          /\ quo.verb = "SYM_MULTIPLY" =>
                /\ ~quo.result.failed
                /\ out.x = Dec_Multiply(x1, x2)
                /\ out.y = Dec_Multiply(y1, y2)
          /\ quo.verb \in {"SYM_DIVIDE", "SYM_REMAINDER"}
                /\ (x2 = Dec_Zero \/ y2 = Dec_Zero)
                => quo.result.failed /\ quo.result.error = "Error_Zero_Divide"

\* what the code does: SUBTRACT takes y2 from both components, and the
\* rest of C40 is as stated
Subtract_Takes_Y2_From_Both ==
    LET x1 == quo.val.x
        y1 == quo.val.y
        x2 == As_Pair(quo.arg)[1]
        y2 == As_Pair(quo.arg)[2]
        out == quo.result.out
    IN  quo.called /\ quo.arg.t \in {"PAIR", "INTEGER", "DECIMAL"} =>
          /\ quo.verb = "SYM_ADD" =>
                ~quo.result.failed /\ out.x = Dec_Add(x1, x2) /\ out.y = Dec_Add(y1, y2)
          /\ quo.verb = "SYM_SUBTRACT" =>
                /\ ~quo.result.failed
                /\ out.x = Dec_Subtract(x1, y2)
                /\ out.y = Dec_Subtract(y1, y2)
          /\ quo.verb = "SYM_MULTIPLY" =>
                /\ ~quo.result.failed
                /\ out.x = Dec_Multiply(x1, x2)
                /\ out.y = Dec_Multiply(y1, y2)
          /\ quo.verb \in {"SYM_DIVIDE", "SYM_REMAINDER"}
                /\ (x2 = Dec_Zero \/ y2 = Dec_Zero)
                => quo.result.failed /\ quo.result.error = "Error_Zero_Divide"

\* 2x2 - 0x1 came out as 1x1, not 2x1
Subtract_Pair_Wrong_X ==
    /\ quo.called
    /\ quo.verb = "SYM_SUBTRACT"
    /\ quo.val = Init_Pair(Dec(2, 1), Dec(2, 1))
    /\ quo.arg = Init_Pair(Dec(0, 1), Dec(1, 1))
    /\ quo.result.out = Init_Pair(Dec(1, 1), Dec(1, 1))

(***************************************************************************)
(* Properties of the dispatchers                                           *)
(***************************************************************************)
\* the step is a run of the named dispatcher
Ran(dispatcher) ==
    /\ frm.pc = "dispatch"
    /\ frm.phase.dispatcher = dispatcher
    /\ frm'.pc # "dispatch"

\* the typeset of the last parameter of the function
Return_Typeset(fun) == fun.paramlist.cells[Len(fun.paramlist.cells)]

\* C12: when the body does not throw, Returner_Dispatcher returns the
\* body's result if its kind is in the typeset of the last (RETURN)
\* parameter of the function, and raises the bad-return-type error otherwise.
C12_ReturnerTypeChecks ==
    [][Ran("Returner_Dispatcher") /\ ~frm'.eval.thrown =>
          /\ VAL_PARAM_CLASS(Return_Typeset(frm.phase)) = "PARAM_CLASS_RETURN"
          /\ frm'.out.kind \in Return_Typeset(frm.phase).bits =>
                 /\ frm'.r = "R_OUT"
                 /\ frm'.pc = "result"
                 /\ frm'.out = Value(frm'.out.kind, Append(frm.arg.trace, frm.phase.body[1]))
          /\ frm'.out.kind \notin Return_Typeset(frm.phase).bits =>
                 /\ frm'.pc = "failed"
                 /\ frm'.error = "Error_Bad_Return_Type"]_vars

\* spec [return: [integer!] x] with a body that gives an integer: the call
\* ends with the integer
C12_Witness ==
    /\ frm.pc = "done"
    /\ frm.ran = <<"Returner_Dispatcher">>
    /\ frm.phase = frm.functions.returner
    /\ frm.out = Value("INTEGER", <<"returner">>)

\* spec [return: [integer!] x] with a body that gives a string: the error
C12_Witness_Error ==
    /\ frm.pc = "failed"
    /\ frm.error = "Error_Bad_Return_Type"
    /\ frm.phase = frm.functions.returner
    /\ frm.out.kind = "STRING"

\* the functions of a pipeline with the chains in it spelled out
RECURSIVE Flattened(_)
Flattened(pipeline) ==
    IF pipeline = <<>> THEN <<>>
    ELSE LET first == frm.functions[Head(pipeline)]
         IN  (IF first.dispatcher = "Chainer_Dispatcher" THEN Flattened(first.body)
              ELSE <<Head(pipeline)>>) \o Flattened(Tail(pipeline))

Reversed(s) == [i \in 1..Len(s) |-> s[Len(s) + 1 - i]]

\* the pushes, the phase and the result of Chainer_Dispatcher
Chainer_PushesReversed ==
    [][Ran("Chainer_Dispatcher") =>
          LET pipeline == frm.phase.body
          IN  /\ frm'.ds = frm.ds \o Reversed(Tail(pipeline))
              /\ frm'.phase = frm.functions[pipeline[1]]
              /\ frm'.binding = frm.functions[pipeline[1]].binding
              /\ frm'.r = "R_REDO_UNCHECKED"
              /\ frm'.out = frm.out]_vars

\* a call of a chain that ends without a throw has applied the functions of
\* the pipeline in pipeline order, each to the result of the one before
Chain_AppliedInPipelineOrder ==
    /\ frm.pc = "done"
    /\ frm.original.dispatcher = "Chainer_Dispatcher"
    /\ ~frm.out.thrown
    => frm.out.trace = Flattened(frm.original.body)

\* C13: Chainer_Dispatcher on a pipeline [a1 .. an] pushes an, .., a2 onto
\* the data stack in that order (a2 on top), sets the frame's phase and
\* binding to a1 and returns redo-unchecked; popping the pushed functions
\* last-in first-out applies them in pipeline order.
C13_ChainerInPipelineOrder ==
    Chainer_PushesReversed /\ []Chain_AppliedInPipelineOrder

\* a pipeline of three different functions, the last a chain itself, has
\* been applied in order
C13_Witness ==
    /\ frm.pc = "done"
    /\ frm.original.body = <<"returner", "voider", "inner_chain">>
    /\ frm.out.trace = <<"returner", "voider", "unchecked", "func">>
    /\ ~frm.out.thrown

\* the dispatchers that evaluate code
Evaluating_Dispatchers ==
    {"Unchecked_Dispatcher", "Voider_Dispatcher", "Returner_Dispatcher",
     "Elider_Dispatcher", "Adapter_Dispatcher", "Encloser_Dispatcher",
     "Hijacker_Dispatcher"}

\* C14: when the evaluation of a dispatcher that evaluates code throws, the
\* dispatcher returns the thrown signal with the thrown value in the
\* frame's out cell and does nothing else: no type check, no void, no change
\* of phase or binding, no push; the call then ends with that throw, so
\* that no other dispatcher runs.
C14_ThrowEndsDispatcher ==
    [][/\ ((\E d \in Evaluating_Dispatchers : Ran(d)) /\ frm'.eval.thrown) =>
             (/\ frm'.pc = "result"
              /\ frm'.r = "R_OUT_IS_THROWN"
              /\ frm'.out = [kind |-> frm'.out.kind,
                             trace |-> Append(frm.arg.trace, frm'.eval.code),
                             thrown |-> TRUE]
              /\ ~frm'.checked
              /\ frm'.phase = frm.phase
              /\ frm'.binding = frm.binding
              /\ frm'.ds = frm.ds)
       /\ (frm.pc = "result" /\ frm.r = "R_OUT_IS_THROWN") =>
             (/\ frm'.pc = "done"
              /\ frm'.out = frm.out
              /\ frm'.ran = frm.ran)]_vars

\* the prelude of an adapter threw: the call has ended with the thrown
\* value and only the adapter's dispatcher has run
C14_Witness ==
    /\ frm.pc = "done"
    /\ frm.original = frm.functions.adapter
    /\ frm.phase = frm.functions.adapter
    /\ frm.out.thrown
    /\ frm.out.trace = <<"prelude">>
    /\ frm.ran = <<"Adapter_Dispatcher">>

\* a function in the middle of a chain threw: the rest of the chain is dropped
C14_Witness_Chain ==
    /\ frm.pc = "done"
    /\ frm.original.body = <<"unchecked", "voider", "returner">>
    /\ frm.out.thrown
    /\ frm.out.trace = <<"unchecked", "voider">>
    /\ frm.ran = <<"Chainer_Dispatcher", "Unchecked_Dispatcher", "Voider_Dispatcher">>

(***************************************************************************)
(* Properties of the quoted values                                         *)
(***************************************************************************)
\* C15: quoting a value d >= 0 times and removing d quote levels gives the
\* value back, and the quoted value has d quote levels more than the value
\* (d levels, for a value that had none); DEQUOTE leaves a value with no
\* quote level, the value the quoting started from; UNEVAL with a negative
\* depth fails and quotes nothing.
Quote_RoundTrip ==
    LET n == quo.native
    IN  /\ (n.name \in {"uneval", "make"} /\ n.error = "") =>
              (/\ n.depth >= 0
               /\ Unquotify(quo.out, n.depth) = n.arg
               /\ VAL_NUM_QUOTES(quo.out) = VAL_NUM_QUOTES(n.arg) + n.depth
               /\ (VAL_NUM_QUOTES(n.arg) = 0 => VAL_NUM_QUOTES(quo.out) = n.depth)
               /\ Unquotify(quo.out, VAL_NUM_QUOTES(quo.out))
                     = Unquotify(n.arg, VAL_NUM_QUOTES(n.arg)))
        /\ n.name = "dequote" =>
              (/\ VAL_NUM_QUOTES(quo.out) = 0
               /\ VAL_TYPE(quo.out) # REB_QUOTED
               /\ Quotify(quo.out, VAL_NUM_QUOTES(n.arg)) = n.arg)
        /\ (n.name = "uneval" /\ n.depth < 0) => n.error = "Error_Invalid"
        /\ n.error # "" => (n.name = "uneval" /\ n.depth < 0)

\* a native that fails leaves the value as it was
Quote_FailQuotesNothing ==
    [][quo'.native.error # "" => quo'.out = quo.out]_vars

C15_QuoteRoundTrip == []Quote_RoundTrip /\ Quote_FailQuotesNothing

\* a value quoted twice is quoted three times more, which takes it out of
\* the kind byte
C15_Witness ==
    /\ quo.native.name = "uneval"
    /\ quo.native.error = ""
    /\ quo.native.depth = 3
    /\ VAL_NUM_QUOTES(quo.native.arg) = 2
    /\ KIND_BYTE(quo.native.arg) # REB_QUOTED
    /\ KIND_BYTE(quo.out) = REB_QUOTED
    /\ VAL_NUM_QUOTES(quo.out) = 5

\* a value quoted four times is dequoted
C15_Witness_Dequote ==
    /\ quo.native.name = "dequote"
    /\ VAL_NUM_QUOTES(quo.native.arg) = 4
    /\ quo.out = Plain_Cell(2, 1)

\* UNEVAL with a negative depth failed
C15_Witness_Negative ==
    /\ quo.native.name = "uneval"
    /\ quo.native.depth = 0 - 1
    /\ quo.native.error = "Error_Invalid"
    /\ VAL_NUM_QUOTES(quo.out) = 1

(***************************************************************************)
(* Properties of the actions and their frames                              *)
(***************************************************************************)
Framed == act.pc = "framed"

\* C16: the varlist Make_Frame_For_Function makes has the length of the
\* facade; without an exemplar every argument slot is void; with one, the
\* slot of a parameter that is not a refinement is the exemplar's slot, the
\* slot of a refinement whose exemplar slot is a logic is that logic, and
\* the slot of a refinement whose exemplar slot is a refinement or void is
\* TRUE if the parameter is marked specialized and void otherwise.
C16_FrameSlots ==
    Framed =>
        LET fun == act.fun
            varlist == act.varlist
            exemplar == fun.exemplar
        IN  /\ varlist.len = fun.facade.len
            /\ Len(varlist.vars) = fun.facade.len - 1
            /\ \A n \in 1..Len(varlist.vars) :
                  LET arg == varlist.vars[n]
                      param == fun.facade.cells[n + 1]
                  IN  IF exemplar.null THEN IS_VOID(arg)
                      ELSE LET special == exemplar.vars[n]
                           IN  IF VAL_PARAM_CLASS(param) # "PARAM_CLASS_REFINEMENT"
                                 THEN arg = special
                               ELSE IF IS_LOGIC(special)
                                 THEN IS_LOGIC(arg) /\ arg.logic = special.logic
                               ELSE IF IS_REFINEMENT(special) \/ IS_VOID(special)
                                 THEN IF n \in fun.facade.specialized
                                        THEN arg = Logic_Cell(TRUE)
                                        ELSE IS_VOID(arg)
                               ELSE TRUE

\* of two refinements with a refinement and a void in the exemplar, the
\* first is marked specialized and the second is not
C16_Witness ==
    /\ Framed
    /\ ~act.fun.exemplar.null
    /\ act.fun.facade.len = 3
    /\ act.fun.facade.specialized = {1}
    /\ act.fun.exemplar.vars = <<Refinement_Cell, Refinement_Cell>>
    /\ act.varlist.vars = <<Logic_Cell(TRUE), Void_Cell>>

\* no exemplar: the slots are void
C16_Witness_NoExemplar ==
    /\ Framed
    /\ act.fun.exemplar.null
    /\ act.varlist.vars = <<Void_Cell, Void_Cell>>

C17_Witness_OwnFacade ==
    /\ act.pc = "made"
    /\ act.opt_facade.node = NULL
    /\ act.fun.paramlist.facade = Paramlist_Node
    /\ act.fun.paramlist.len = 3

=============================================================================
